---------------------------- MODULE Spec2Model ----------------------------
(***************************************************************************)
(* A model of the structured-data engine of bserial.h: the serialization   *)
(* context (status, scope stack, schema pool, symbol table), the public    *)
(* operations (scalars, blobs, symbols, arrays, tables, records, keys),    *)
(* the generic skip traversal, and a caller that drives them.              *)
(*                                                                         *)
(* The engine is written as operators over a context value `c` that        *)
(* return the context after the call together with the C return value;     *)
(* each public operation is one action that applies its operator.          *)
(***************************************************************************)
EXTENDS Integers, Sequences, FiniteSets, TLC

(***************************************************************************)
(* Bounds of the model.                                                    *)
(***************************************************************************)
MaxDepth == 4          \* largest config.max_depth explored
MaxFields == 2         \* config.max_record_fields
MaxSymbols == 3        \* config.max_num_symbols
MaxSymLen == 2         \* config.max_symbol_len
MaxOut == 3            \* capacity of the small output sink, in bytes
MaxCut == 1            \* bytes a reader's input may lack at its end

(***************************************************************************)
(* Enumerations of bserial.h.                                              *)
(***************************************************************************)
BSERIAL_OK == "OK"
BSERIAL_IO_ERROR == "IO_ERROR"
BSERIAL_MALFORMED == "MALFORMED"

BSERIAL_UINT == 1
BSERIAL_SINT == 2
BSERIAL_F32 == 3
BSERIAL_F64 == 4
BSERIAL_BLOB == 5
BSERIAL_SYM_DEF == 6
BSERIAL_SYM_REF == 7
BSERIAL_ARRAY == 8
BSERIAL_TABLE == 9
BSERIAL_RECORD == 10

BSERIAL_SCOPE_ROOT == "ROOT"
BSERIAL_SCOPE_BLOB == "BLOB"
BSERIAL_SCOPE_ARRAY == "ARRAY"
BSERIAL_SCOPE_TABLE == "TABLE"
BSERIAL_SCOPE_RECORD == "RECORD"

BSERIAL_OP_NUMERIC == "NUMERIC"
BSERIAL_OP_BLOB == "OP_BLOB"
BSERIAL_OP_SYMBOL == "OP_SYMBOL"
BSERIAL_OP_TABLE == "OP_TABLE"
BSERIAL_OP_ARRAY == "OP_ARRAY"
BSERIAL_OP_RECORD == "OP_RECORD"

BSERIAL_RECORD_MEASURE_WIDTH == "MEASURE_WIDTH"
BSERIAL_RECORD_KEY_IO == "KEY_IO"
BSERIAL_RECORD_VALUE_IO == "VALUE_IO"

BSERIAL_MODE_WRITE == "WRITE"
BSERIAL_MODE_READ == "READ"

BSERIAL_NO_MARKER == 255
BSERIAL_SKIP_BLKSIZE == 1024

NULL == 0
\* The content of memory that was never written (an indeterminate value).
UNINIT == -1
\* (uint32_t)(0 - 1): TLC integers are 32 bit signed, so the wrapped depth
\* 2^32-1 is represented by the largest value TLC can hold; it is never
\* counted down to zero by any stream of the model.
UINT32_WRAP == 2147483647

(***************************************************************************)
(* Byte streams (the BSERIAL_MEM backend).  A stream pointer that is NULL  *)
(* is a stream record whose `attached` field is FALSE.  The field `failed`  *)
(* records that a callback of the stream has reported a failure.           *)
(***************************************************************************)
NoIn == [attached |-> FALSE, buf |-> << >>, cur |-> 0, skip |-> FALSE,
         failed |-> FALSE]
NoOut == [attached |-> FALSE, mem |-> << >>, cap |-> 0, failed |-> FALSE]

\* bserial_mem_init_in over `mem`; has_skip tells whether the stream has a
\* skip callback.
bserial_mem_init_in(mem, has_skip) ==
    [attached |-> TRUE, buf |-> mem, cur |-> 0, skip |-> has_skip,
     failed |-> FALSE]

\* bserial_mem_init_out; `cap` is the number of bytes the sink accepts
\* before its allocation fails.
bserial_mem_init_out(cap) ==
    [attached |-> TRUE, mem |-> << >>, cap |-> cap, failed |-> FALSE]

\* bserial_mem_read through bserial_read: all of `size` bytes or a failure.
bserial_read(in, size) ==
    IF size = 0 THEN [in |-> in, r |-> BSERIAL_OK, b |-> << >>]
    ELSE IF in.cur + size <= Len(in.buf)
    THEN [in |-> [in EXCEPT !.cur = in.cur + size], r |-> BSERIAL_OK,
          b |-> SubSeq(in.buf, in.cur + 1, in.cur + size)]
    ELSE [in |-> [in EXCEPT !.failed = TRUE], r |-> BSERIAL_IO_ERROR,
          b |-> << >>]

\* bserial_skip: the stream's own skip when it has one, block reads when not.
\* The block loop reads read_size bytes into char buf[BSERIAL_SKIP_BLKSIZE]
\* and then computes size -= read_size on size_t.  A read of more than the
\* buffer holds writes past the buffer, and a read_size above size wraps size
\* to 2^64 - (read_size - size), which the next turn of the loop reads into
\* the same buffer: both are undefined behaviour, whose outcome is `ub`.
RECURSIVE bserial_skip_blocks(_, _, _)
bserial_skip_blocks(in, size, ub) ==
    IF size = 0 THEN [in |-> in, r |-> BSERIAL_OK]
    ELSE LET read_size == IF BSERIAL_SKIP_BLKSIZE > size
                          THEN BSERIAL_SKIP_BLKSIZE ELSE size
             rd == bserial_read(in, read_size)
         IN  IF rd.r # BSERIAL_OK THEN [in |-> rd.in, r |-> rd.r]
             ELSE IF read_size > BSERIAL_SKIP_BLKSIZE \/ read_size > size
                  THEN ub
                  ELSE bserial_skip_blocks(rd.in, size - read_size, ub)

bserial_skip(in, size, ub) ==
    IF in.skip
    THEN IF in.cur + size <= Len(in.buf)
         THEN [in |-> [in EXCEPT !.cur = in.cur + size], r |-> BSERIAL_OK]
         ELSE [in |-> [in EXCEPT !.failed = TRUE], r |-> BSERIAL_IO_ERROR]
    ELSE bserial_skip_blocks(in, size, ub)

\* bserial_write: the sink accepts bytes until its capacity is exhausted.
bserial_write(out, bytes) ==
    IF Len(bytes) = 0 THEN [out |-> out, r |-> BSERIAL_OK]
    ELSE IF Len(out.mem) + Len(bytes) <= out.cap
    THEN [out |-> [out EXCEPT !.mem = out.mem \o bytes], r |-> BSERIAL_OK]
    ELSE [out |-> [out EXCEPT !.failed = TRUE], r |-> BSERIAL_IO_ERROR]

(***************************************************************************)
(* Primitive codec.                                                        *)
(***************************************************************************)
RECURSIVE Shr7(_, _)
Shr7(x, i) == IF i = 0 THEN x ELSE Shr7(x \div 128, i - 1)

RECURSIVE Shl7(_, _)
Shl7(x, i) == IF i = 0 \/ x = 0 THEN x ELSE Shl7(x * 128, i - 1)

\* The bytes bserial_write_uint hands to bserial_write.
write_uint_bytes(x) ==
    LET n == Cardinality({i \in 0..9 : Shr7(x, i) >= 128})
    IN  [i \in 1..(n + 1) |->
            IF i - 1 < n THEN 128 + (Shr7(x, i - 1) % 128)
                         ELSE Shr7(x, i - 1) % 128]

bserial_write_uint(x, out) == bserial_write(out, write_uint_bytes(x))

\* (uint64_t)x << 1, complemented for negative x.
zigzag(x) == IF x < 0 THEN (-2 * x) - 1 ELSE 2 * x

bserial_write_sint(x, out) == bserial_write_uint(zigzag(x), out)

RECURSIVE read_uint_loop(_, _, _)
read_uint_loop(in, i, tmp) ==
    IF i = 10 THEN [in |-> in, r |-> BSERIAL_MALFORMED, x |-> UNINIT]
    ELSE LET rd == bserial_read(in, 1)
         IN  IF rd.r # BSERIAL_OK THEN [in |-> rd.in, r |-> rd.r, x |-> UNINIT]
             ELSE LET b == rd.b[1]
                      t == tmp + Shl7(b % 128, i)
                  IN  IF b < 128 THEN [in |-> rd.in, r |-> BSERIAL_OK, x |-> t]
                      ELSE read_uint_loop(rd.in, i + 1, t)

bserial_read_uint(in) == read_uint_loop(in, 0, 0)

unzigzag(ux) == IF ux % 2 # 0 THEN -(ux \div 2) - 1 ELSE ux \div 2

bserial_read_sint(in) ==
    LET rd == bserial_read_uint(in)
    IN  IF rd.r # BSERIAL_OK THEN rd
        ELSE [in |-> rd.in, r |-> BSERIAL_OK, x |-> unzigzag(rd.x)]

\* Little-endian bytes of a bit pattern, as bserial_write_f32/f64 emit them.
RECURSIVE le_bytes(_, _)
le_bytes(ivalue, n) ==
    IF n = 0 THEN << >> ELSE <<ivalue % 256>> \o le_bytes(ivalue \div 256, n - 1)

RECURSIVE le_value(_)
le_value(buf) ==
    IF Len(buf) = 0 THEN 0 ELSE buf[1] + 256 * le_value(Tail(buf))

bserial_write_f32(f32, out) == bserial_write(out, le_bytes(f32, 4))
bserial_write_f64(f64, out) == bserial_write(out, le_bytes(f64, 8))

bserial_read_f32(in) ==
    LET rd == bserial_read(in, 4)
    IN  IF rd.r # BSERIAL_OK THEN [in |-> rd.in, r |-> rd.r, x |-> UNINIT]
        ELSE [in |-> rd.in, r |-> BSERIAL_OK, x |-> le_value(rd.b)]

bserial_read_f64(in) ==
    LET rd == bserial_read(in, 8)
    IN  IF rd.r # BSERIAL_OK THEN [in |-> rd.in, r |-> rd.r, x |-> UNINIT]
        ELSE [in |-> rd.in, r |-> BSERIAL_OK, x |-> le_value(rd.b)]

(***************************************************************************)
(* The serialization context.                                              *)
(***************************************************************************)
\* The innermost scope, ctx->scope.
Cur(c) == c.scopes[Len(c.scopes)]

SetCur(c, s) == [c EXCEPT !.scopes[Len(c.scopes)] = s]

\* Number of entries of the schema pool (max_depth * max_record_fields).
SchemaPoolLen(config) == config.max_depth * config.max_record_fields

\* Number of slots of the symbol index: the first power of two, at least 4,
\* that is not below 2 * max_num_symbols.
RECURSIVE symtab_exp_from(_, _)
symtab_exp_from(exp, config) ==
    IF 2 ^ exp < config.max_num_symbols * 2
    THEN symtab_exp_from(exp + 1, config) ELSE exp

symtab_exp_of(config) == symtab_exp_from(2, config)

\* bserial_make_ctx and bserial_ctx_mem_layout: exactly one of in/out is
\* attached.  Only the symbol index is cleared; the schema pool keeps
\* whatever the caller's buffer held.
bserial_make_ctx(config, in, out) ==
    [ config |-> config,
      status |-> BSERIAL_OK,
      in |-> in,
      out |-> out,
      marker_buf |-> BSERIAL_NO_MARKER,
      symtab |-> << >>,
      num_symbols |-> 0,
      symtab_index |-> [i \in 0..(2 ^ symtab_exp_of(config) - 1) |-> 0],
      symtab_exp |-> symtab_exp_of(config),
      strmem |-> << >>,
      strpool |-> 0,
      scopes |-> << [type |-> BSERIAL_SCOPE_ROOT, iterator |-> 0, len |-> 0,
                     record_mode |-> BSERIAL_RECORD_MEASURE_WIDTH,
                     record_schema |-> NULL, prev_schema_pool |-> NULL,
                     record_addr |-> NULL, record_width |-> 0] >>,
      schema |-> [i \in 1..SchemaPoolLen(config) |->
                     [symbol |-> UNINIT, symbol_len |-> UNINIT,
                      field_name |-> UNINIT]],
      schema_pool |-> 1 ]

bserial_mode(c) ==
    IF c.in.attached THEN BSERIAL_MODE_READ ELSE BSERIAL_MODE_WRITE

bserial_status(c) == c.status

\* A bserial_malformed that reports the violation without latching it.
malformed_unlatched(c) == [c |-> c, r |-> BSERIAL_MALFORMED]

bserial_malformed(c) ==
    [c |-> [c EXCEPT !.status = BSERIAL_MALFORMED], r |-> BSERIAL_MALFORMED]

\* A scope stack that is one frame too deep.
scope_last_plus_one(c) == c.config.max_depth + 1

\* ctx->scope_last, as the number of frames of a full scope stack.
scope_last(c) == c.config.max_depth

bserial_push_scope(c, type) ==
    IF c.status # BSERIAL_OK THEN [c |-> c, r |-> c.status]
    ELSE IF Len(c.scopes) = scope_last(c) THEN bserial_malformed(c)
    ELSE LET isrec == type = BSERIAL_SCOPE_RECORD \/ type = BSERIAL_SCOPE_TABLE
             s == [type |-> type, iterator |-> 0, len |-> 0,
                   record_mode |-> BSERIAL_RECORD_MEASURE_WIDTH,
                   record_schema |-> IF isrec THEN c.schema_pool ELSE NULL,
                   prev_schema_pool |-> c.schema_pool,
                   record_addr |-> NULL, record_width |-> 0]
         IN  [c |-> [c EXCEPT !.scopes = Append(c.scopes, s),
                              !.schema_pool =
                                  IF isrec
                                  THEN c.schema_pool + c.config.max_record_fields
                                  ELSE c.schema_pool],
              r |-> BSERIAL_OK]

\* A bserial_pop_scope that leaves the schema pool where the frame put it.
pop_scope_keeping_pool(c) ==
    IF c.status # BSERIAL_OK THEN [c |-> c, r |-> c.status]
    ELSE IF Cur(c).type = BSERIAL_SCOPE_ROOT THEN bserial_malformed(c)
    ELSE [c |-> [c EXCEPT !.scopes = SubSeq(c.scopes, 1, Len(c.scopes) - 1)],
          r |-> BSERIAL_OK]

bserial_pop_scope(c) ==
    IF c.status # BSERIAL_OK THEN [c |-> c, r |-> c.status]
    ELSE IF Cur(c).type = BSERIAL_SCOPE_ROOT THEN bserial_malformed(c)
    ELSE [c |-> [c EXCEPT !.schema_pool = Cur(c).prev_schema_pool,
                          !.scopes = SubSeq(c.scopes, 1, Len(c.scopes) - 1)],
          r |-> BSERIAL_OK]

\* A bserial_begin_op that takes a blob for a place where values go.
blob_open_ignored(c) == FALSE

\* scope_type == BSERIAL_SCOPE_BLOB
blob_open(c) == Cur(c).type = BSERIAL_SCOPE_BLOB

\* A bserial_begin_op that lets any operation stand for a row of a table.
table_refuses_none(c, op) == FALSE

\* scope_type == BSERIAL_SCOPE_TABLE && op != BSERIAL_OP_RECORD
table_refuses(c, op) ==
    Cur(c).type = BSERIAL_SCOPE_TABLE /\ op # BSERIAL_OP_RECORD

\* bserial_begin_op once the status was found Ok: the scope checks, the
\* count of the enclosing array or table, and the push.
begin_op_checked(c, op) ==
    LET scope_type == Cur(c).type
    IN  IF blob_open(c) THEN bserial_malformed(c)
        ELSE IF table_refuses(c, op) THEN bserial_malformed(c)
        ELSE LET c1 == IF scope_type = BSERIAL_SCOPE_ARRAY
                          \/ scope_type = BSERIAL_SCOPE_TABLE
                       THEN SetCur(c, [Cur(c) EXCEPT
                                          !.iterator = Cur(c).iterator + 1])
                       ELSE c
             IN  IF op = BSERIAL_OP_BLOB
                 THEN bserial_push_scope(c1, BSERIAL_SCOPE_BLOB)
                 ELSE IF op = BSERIAL_OP_ARRAY
                 THEN bserial_push_scope(c1, BSERIAL_SCOPE_ARRAY)
                 ELSE IF op = BSERIAL_OP_TABLE
                 THEN bserial_push_scope(c1, BSERIAL_SCOPE_TABLE)
                 ELSE IF op = BSERIAL_OP_RECORD
                 THEN bserial_push_scope(c1, BSERIAL_SCOPE_RECORD)
                 ELSE [c |-> c1, r |-> BSERIAL_OK]

\* A bserial_begin_op that does not look at the status.
begin_op_unlatched(c, op) == begin_op_checked(c, op)

bserial_begin_op(c, op) ==
    IF c.status # BSERIAL_OK THEN [c |-> c, r |-> c.status]
    ELSE begin_op_checked(c, op)

\* An auto-pop that closes the innermost array or table only.
end_op_autopop_once(c) ==
    IF (Cur(c).type = BSERIAL_SCOPE_ARRAY \/ Cur(c).type = BSERIAL_SCOPE_TABLE)
       /\ Cur(c).iterator = Cur(c).len
    THEN bserial_pop_scope(c)
    ELSE [c |-> c, r |-> BSERIAL_OK]

\* An auto-pop that closes whatever frame has seen as many values as its
\* length says, of any type.
end_op_autopop_any(c) ==
    IF Cur(c).iterator = Cur(c).len
    THEN bserial_pop_scope(c)
    ELSE [c |-> c, r |-> BSERIAL_OK]

\* The auto-pop loop of bserial_end_op.
RECURSIVE end_op_autopop(_)
end_op_autopop(c) ==
    IF (Cur(c).type = BSERIAL_SCOPE_ARRAY \/ Cur(c).type = BSERIAL_SCOPE_TABLE)
       /\ Cur(c).iterator = Cur(c).len
    THEN LET p == bserial_pop_scope(c)
         IN  IF p.r # BSERIAL_OK THEN p ELSE end_op_autopop(p.c)
    ELSE [c |-> c, r |-> BSERIAL_OK]

bserial_end_op(c, op) ==
    IF c.status # BSERIAL_OK THEN [c |-> c, r |-> c.status]
    ELSE IF (Cur(c).type = BSERIAL_SCOPE_BLOB /\ op = BSERIAL_OP_BLOB)
            \/ (Cur(c).type = BSERIAL_SCOPE_RECORD /\ op = BSERIAL_OP_RECORD)
    THEN LET p == bserial_pop_scope(c)
         IN  IF p.r # BSERIAL_OK THEN p ELSE end_op_autopop(p.c)
    ELSE end_op_autopop(c)

\* A stream read or write whose result is latched into ctx->status.
ctx_read(c, size) ==
    LET rd == bserial_read(c.in, size)
    IN  [c |-> [c EXCEPT !.in = rd.in, !.status = rd.r], r |-> rd.r, b |-> rd.b]

ctx_write(c, bytes) ==
    LET wr == bserial_write(c.out, bytes)
    IN  [c |-> [c EXCEPT !.out = wr.out, !.status = wr.r], r |-> wr.r]

bserial_peek_marker(c) ==
    IF c.marker_buf = BSERIAL_NO_MARKER
    THEN LET rd == ctx_read(c, 1)
         IN  IF rd.r # BSERIAL_OK THEN [c |-> rd.c, r |-> rd.r, marker |-> UNINIT]
             ELSE [c |-> [rd.c EXCEPT !.marker_buf = rd.b[1]],
                   r |-> BSERIAL_OK, marker |-> rd.b[1]]
    ELSE [c |-> c, r |-> BSERIAL_OK, marker |-> c.marker_buf]

bserial_read_marker(c) ==
    IF c.marker_buf = BSERIAL_NO_MARKER
    THEN LET rd == ctx_read(c, 1)
         IN  IF rd.r # BSERIAL_OK THEN [c |-> rd.c, r |-> rd.r, marker |-> UNINIT]
             ELSE [c |-> rd.c, r |-> BSERIAL_OK, marker |-> rd.b[1]]
    ELSE [c |-> [c EXCEPT !.marker_buf = BSERIAL_NO_MARKER],
          r |-> BSERIAL_OK, marker |-> c.marker_buf]

bserial_discard_marker(c) == [c EXCEPT !.marker_buf = BSERIAL_NO_MARKER]

(***************************************************************************)
(* Scalars and blobs.  Each operator returns the context after the call,   *)
(* the returned status r and the caller's variable v after the call.       *)
(***************************************************************************)
\* The common shape of bserial_uint, bserial_sint, bserial_f32, bserial_f64.
\* A reader that takes any marker for the one it expects.
marker_accepted(actual, marker) == FALSE

\* marker != BSERIAL_UINT and its likes: the marker on the wire is not the
\* one of the operation.
marker_differs(actual, marker) == actual # marker

numeric_op(c, value, marker, rdres(_), wrbytes) ==
    LET fail(cc, rr) == [c |-> cc, r |-> rr, v |-> value]
        ended(e, v) == [c |-> e.c, r |-> e.r, v |-> v]
        latched(cc, rd) == [cc EXCEPT !.in = rd.in, !.status = rd.r]
        got(cc, rd) ==
            IF rd.r # BSERIAL_OK THEN fail(latched(cc, rd), rd.r)
            ELSE ended(bserial_end_op(latched(cc, rd), BSERIAL_OP_NUMERIC), rd.x)
        marked(m) ==
            IF m.r # BSERIAL_OK THEN fail(m.c, m.r)
            ELSE IF marker_differs(m.marker, marker)
            THEN fail(bserial_malformed(m.c).c, BSERIAL_MALFORMED)
            ELSE got(m.c, rdres(m.c.in))
        wrote2(w2) ==
            IF w2.r # BSERIAL_OK THEN fail(w2.c, w2.r)
            ELSE ended(bserial_end_op(w2.c, BSERIAL_OP_NUMERIC), value)
        wrote1(w1) ==
            IF w1.r # BSERIAL_OK THEN fail(w1.c, w1.r)
            ELSE wrote2(ctx_write(w1.c, wrbytes))
        begun(b) ==
            IF b.r # BSERIAL_OK THEN fail(b.c, b.r)
            ELSE IF bserial_mode(b.c) = BSERIAL_MODE_READ
            THEN marked(bserial_read_marker(b.c))
            ELSE wrote1(ctx_write(b.c, <<marker>>))
    IN  begun(bserial_begin_op(c, BSERIAL_OP_NUMERIC))

bserial_uint(c, value) ==
    numeric_op(c, value, BSERIAL_UINT, bserial_read_uint, write_uint_bytes(value))

bserial_sint(c, value) ==
    numeric_op(c, value, BSERIAL_SINT, bserial_read_sint,
               write_uint_bytes(zigzag(value)))

bserial_f32(c, value) ==
    numeric_op(c, value, BSERIAL_F32, bserial_read_f32, le_bytes(value, 4))

bserial_f64(c, value) ==
    numeric_op(c, value, BSERIAL_F64, bserial_read_f64, le_bytes(value, 8))

\* bserial_marker_and_length: reads the marker from the stream itself, not
\* through the marker buffer.
bserial_marker_and_length(c, marker, length) ==
    LET fail(cc, rr) == [c |-> cc, r |-> rr, v |-> length]
        got(cc, rd) ==
            [c |-> [cc EXCEPT !.in = rd.in, !.status = rd.r], r |-> rd.r,
             v |-> IF rd.r = BSERIAL_OK THEN rd.x ELSE length]
        marked(m) ==
            IF m.r # BSERIAL_OK THEN fail(m.c, m.r)
            ELSE IF marker_differs(m.b[1], marker)
            THEN fail(bserial_malformed(m.c).c, BSERIAL_MALFORMED)
            ELSE got(m.c, bserial_read_uint(m.c.in))
        wrote2(w2) == fail(w2.c, w2.r)
        wrote1(w1) ==
            IF w1.r # BSERIAL_OK THEN fail(w1.c, w1.r)
            ELSE wrote2(ctx_write(w1.c, write_uint_bytes(length)))
    IN  IF c.status # BSERIAL_OK THEN fail(c, c.status)
        ELSE IF bserial_mode(c) = BSERIAL_MODE_READ THEN marked(ctx_read(c, 1))
        ELSE wrote1(ctx_write(c, <<marker>>))

bserial_blob_header(c, len) ==
    LET measured(m) ==
            IF m.r # BSERIAL_OK
            THEN [c |-> [m.c EXCEPT !.status = m.r], r |-> m.r, v |-> m.v]
            ELSE [c |-> SetCur(m.c, [Cur(m.c) EXCEPT !.len = m.v]),
                  r |-> BSERIAL_OK, v |-> m.v]
        begun(b) ==
            IF b.r # BSERIAL_OK THEN [c |-> b.c, r |-> b.r, v |-> len]
            ELSE measured(bserial_marker_and_length(b.c, BSERIAL_BLOB, len))
    IN  begun(bserial_begin_op(c, BSERIAL_OP_BLOB))

\* buf is the caller's buffer content; on read, v is its content afterwards.
bserial_blob_body(c, buf) ==
    LET ended(e, v) == [c |-> e.c, r |-> e.r, v |-> v]
        moved(io, v) ==
            IF io.r # BSERIAL_OK THEN [c |-> io.c, r |-> io.r, v |-> buf]
            ELSE ended(bserial_end_op(io.c, BSERIAL_OP_BLOB), v)
        was_read(rd) == moved(rd, rd.b)
    IN  IF c.status # BSERIAL_OK THEN [c |-> c, r |-> c.status, v |-> buf]
        ELSE IF Cur(c).type # BSERIAL_SCOPE_BLOB
        THEN [c |-> bserial_malformed(c).c, r |-> BSERIAL_MALFORMED, v |-> buf]
        ELSE IF Cur(c).len > 0
        THEN IF bserial_mode(c) = BSERIAL_MODE_READ
             THEN was_read(ctx_read(c, Cur(c).len))
             ELSE moved(ctx_write(c, SubSeq(buf, 1, Cur(c).len)), buf)
        ELSE ended(bserial_end_op(c, BSERIAL_OP_BLOB), buf)

(***************************************************************************)
(* Symbols.  64 bit unsigned integers are sequences of 8 bytes, least      *)
(* significant first, so that the hash keeps its width.                    *)
(***************************************************************************)
RECURSIVE xor_bits(_, _, _)
xor_bits(x, y, n) ==
    IF n = 0 THEN 0
    ELSE ((x + y) % 2) + 2 * xor_bits(x \div 2, y \div 2, n - 1)

u64_xor(a, b) == [i \in 1..8 |-> xor_bits(a[i], b[i], 8)]

RECURSIVE u64_mul_from(_, _, _, _)
u64_mul_from(a, b, k, carry) ==
    IF k > 8 THEN << >>
    ELSE LET RECURSIVE col(_)
             col(i) == IF i = 0 THEN 0 ELSE a[i] * b[k + 1 - i] + col(i - 1)
             t == col(k) + carry
         IN  <<t % 256>> \o u64_mul_from(a, b, k + 1, t \div 256)

u64_mul(a, b) == u64_mul_from(a, b, 1, 0)

\* a >> n for 0 <= n < 64
u64_shr(a, n) ==
    LET q == n \div 8
        r == n % 8
        limb(i) == IF i <= 8 THEN a[i] ELSE 0
    IN  [i \in 1..8 |->
            (limb(i + q) \div (2 ^ r)) + (limb(i + q + 1) % (2 ^ r)) * (2 ^ (8 - r))]

\* 525201411107845655 = 0x0749E3E6989DF617
HASH_SEED == <<23, 246, 157, 152, 230, 227, 73, 7>>
\* 0x5bd1e9955bd1e995
HASH_MUL == <<149, 233, 209, 91, 149, 233, 209, 91>>

RECURSIVE hash_from(_, _)
hash_from(h, key) ==
    IF Len(key) = 0 THEN h
    ELSE LET h1 == u64_xor(h, <<key[1], 0, 0, 0, 0, 0, 0, 0>>)
             h2 == u64_mul(h1, HASH_MUL)
             h3 == u64_xor(h2, u64_shr(h2, 47))
         IN  hash_from(h3, Tail(key))

\* MurmurOAAT64 over the bytes of `key`.
bserial_hash(key) == hash_from(HASH_SEED, key)

\* The low `exp` bits of (idx + step); exp is at most 8 in the model.
bserial_lookup_index(hash, exp, idx) ==
    LET top == hash[8] \div (2 ^ (8 - exp))
        step == IF top % 2 = 0 THEN top + 1 ELSE top
    IN  (idx + step) % (2 ^ exp)

(***************************************************************************)
(* The caller's string literals: a name is a pointer into NameMem, and     *)
(* two different pointers may hold the same text.                          *)
(***************************************************************************)
NameMem == << <<97>>, <<98>>, <<99, 100>>, <<97>>, <<101, 102, 103>> >>
NamePtrs == 1..Len(NameMem)
NameText(p) == NameMem[p]

\* The NUL-terminated string stored at offset buf of the string pool.
PoolStr(c, buf) == SubSeq(c.strmem, buf + 1, Len(c.strmem))

\* The `len` bytes of symbol text at offset buf of the string pool.
SymText(c, buf, len) == SubSeq(c.strmem, buf + 1, buf + len)

\* strncmp(s1, s2, n) == 0 for NUL-terminated s1 and s2.
RECURSIVE strncmp_eq(_, _, _)
strncmp_eq(s1, s2, n) ==
    IF n = 0 THEN TRUE
    ELSE IF s1[1] # s2[1] THEN FALSE
    ELSE IF s1[1] = 0 THEN TRUE
    ELSE strncmp_eq(Tail(s1), Tail(s2), n - 1)

\* A table that takes one symbol more than its configuration allows.
symtab_full_late(c) == c.num_symbols > c.config.max_num_symbols

\* ctx->num_symbols >= ctx->config.max_num_symbols
symtab_full(c) == c.num_symbols >= c.config.max_num_symbols

\* A new symbol whose slot of the index is left empty.
symtab_insert_unindexed(c, text, i) ==
    [c EXCEPT !.strmem = c.strmem \o text \o <<0>>,
              !.symtab = Append(c.symtab, [buf |-> c.strpool, len |-> Len(text)]),
              !.num_symbols = c.num_symbols + 1,
              !.strpool = c.strpool + Len(text) + 1]

\* The write branch of bserial_symbol interns a new text at slot i of the
\* index.
symtab_insert(c, text, i) ==
    [c EXCEPT !.strmem = c.strmem \o text \o <<0>>,
              !.symtab = Append(c.symtab, [buf |-> c.strpool, len |-> Len(text)]),
              !.symtab_index[i] = c.num_symbols + 1,
              !.num_symbols = c.num_symbols + 1,
              !.strpool = c.strpool + Len(text) + 1]

\* A comparison of lengths only.
symbol_hit_by_len(c, index, text) == c.symtab[index].len = Len(text)

\* The symbol the index slot refers to has the caller's length and bytes.
symbol_hit(c, index, text) ==
    /\ c.symtab[index].len = Len(text)
    /\ SymText(c, c.symtab[index].buf, Len(text)) = text

\* The probe loop of the write branch of bserial_symbol.  `text` is the
\* caller's text; the result carries the caller's pointer unchanged.
RECURSIVE symbol_probe(_, _, _, _)
symbol_probe(c, text, symbol_hash, i0) ==
    LET symbol_len == Len(text)
        res(w) == [c |-> w.c, r |-> w.r]
        def2(w2) == IF w2.r # BSERIAL_OK THEN res(w2) ELSE res(ctx_write(w2.c, text))
        def1(w1) ==
            IF w1.r # BSERIAL_OK THEN res(w1)
            ELSE def2(ctx_write(w1.c, write_uint_bytes(symbol_len)))
        ref1(w1, index) ==
            IF w1.r # BSERIAL_OK THEN res(w1)
            ELSE res(ctx_write(w1.c, write_uint_bytes(index - 1)))
        slot(i, index) ==
            IF index = 0
            THEN IF symtab_full(c)
                 THEN bserial_malformed(c)
                 ELSE def1(ctx_write(symtab_insert(c, text, i), <<BSERIAL_SYM_DEF>>))
            ELSE IF symbol_hit(c, index, text)
            THEN ref1(ctx_write(c, <<BSERIAL_SYM_REF>>), index)
            ELSE symbol_probe(c, text, symbol_hash, i)
        at(i) == slot(i, c.symtab_index[i])
    IN  at(bserial_lookup_index(symbol_hash, c.symtab_exp, i0))

\* A lookup that ignores the id and yields the newest symbol.
symtab_ref_newest(c, symbol_id) == c.symtab[c.num_symbols]

\* ctx->symtab[symbol_id]
symtab_ref(c, symbol_id) == c.symtab[symbol_id + 1]

\* bserial_symbol(ctx, &buf, &len).  On write, `text` is the memory *buf
\* points to; the result gives *buf and *len after the call.  On read the
\* returned buf is an offset into the string pool.
bserial_symbol(c, buf, len, text) ==
    LET fail(cc, rr) == [c |-> cc, r |-> rr, buf |-> buf, len |-> len]
        ended(e, pbuf, plen) == [c |-> e.c, r |-> e.r, buf |-> pbuf, len |-> plen]
        latched(cc, rd) == [cc EXCEPT !.in = rd.in, !.status = rd.r]
        def_text(rd, symbol_len) ==
            IF rd.r # BSERIAL_OK THEN fail(rd.c, rd.r)
            ELSE ended(bserial_end_op(
                           [rd.c EXCEPT
                               !.strmem = rd.c.strmem \o rd.b \o <<0>>,
                               !.symtab = Append(rd.c.symtab,
                                   [buf |-> rd.c.strpool, len |-> symbol_len]),
                               !.num_symbols = rd.c.num_symbols + 1,
                               !.strpool = rd.c.strpool + symbol_len + 1],
                           BSERIAL_OP_SYMBOL),
                       rd.c.strpool, symbol_len)
        def_len(cc, rl) ==
            IF rl.r # BSERIAL_OK THEN fail(latched(cc, rl), rl.r)
            ELSE IF rl.x > cc.config.max_symbol_len
            THEN fail(bserial_malformed(latched(cc, rl)).c, BSERIAL_MALFORMED)
            ELSE def_text(ctx_read(latched(cc, rl), rl.x), rl.x)
        ref_id(cc, ri) ==
            IF ri.r # BSERIAL_OK THEN fail(latched(cc, ri), ri.r)
            ELSE IF ri.x >= cc.num_symbols
            THEN fail(bserial_malformed(latched(cc, ri)).c, BSERIAL_MALFORMED)
            ELSE ended(bserial_end_op(latched(cc, ri), BSERIAL_OP_SYMBOL),
                       symtab_ref(cc, ri.x).buf, symtab_ref(cc, ri.x).len)
        marked(m) ==
            IF m.r # BSERIAL_OK THEN fail(m.c, m.r)
            ELSE IF m.marker = BSERIAL_SYM_DEF
            THEN IF symtab_full(m.c)
                 THEN fail(bserial_malformed(m.c).c, BSERIAL_MALFORMED)
                 ELSE def_len(m.c, bserial_read_uint(m.c.in))
            ELSE IF m.marker = BSERIAL_SYM_REF
            THEN ref_id(m.c, bserial_read_uint(m.c.in))
            ELSE fail(bserial_malformed(m.c).c, BSERIAL_MALFORMED)
        probed(pr) ==
            IF pr.r # BSERIAL_OK THEN fail(pr.c, pr.r)
            ELSE ended(bserial_end_op(pr.c, BSERIAL_OP_SYMBOL), buf, len)
        hashed(cc, symbol_hash) ==
            probed(symbol_probe(cc, text, symbol_hash,
                                symbol_hash[1] % (2 ^ cc.symtab_exp)))
        begun(b) ==
            IF b.r # BSERIAL_OK THEN fail(b.c, b.r)
            ELSE IF bserial_mode(b.c) = BSERIAL_MODE_READ
            THEN marked(bserial_read_marker(b.c))
            ELSE IF len > b.c.config.max_symbol_len
            THEN fail(bserial_malformed(b.c).c, BSERIAL_MALFORMED)
            ELSE hashed(b.c, bserial_hash(text))
    IN  begun(bserial_begin_op(c, BSERIAL_OP_SYMBOL))

(***************************************************************************)
(* Arrays and tables.                                                      *)
(***************************************************************************)
\* The common shape of bserial_array and bserial_table.
compound_op(c, len, op, marker) ==
    LET ended(e, v) == [c |-> e.c, r |-> e.r, v |-> v]
        measured(m) ==
            IF m.r # BSERIAL_OK THEN m
            ELSE IF m.v > 0
            THEN [c |-> SetCur(m.c, [Cur(m.c) EXCEPT !.len = m.v]),
                  r |-> BSERIAL_OK, v |-> m.v]
            ELSE ended(bserial_end_op(m.c, op), m.v)
        begun(b) ==
            IF b.r # BSERIAL_OK THEN [c |-> b.c, r |-> b.r, v |-> len]
            ELSE measured(bserial_marker_and_length(b.c, marker, len))
    IN  begun(bserial_begin_op(c, op))

bserial_array(c, len) == compound_op(c, len, BSERIAL_OP_ARRAY, BSERIAL_ARRAY)

bserial_table(c, len) == compound_op(c, len, BSERIAL_OP_TABLE, BSERIAL_TABLE)

(***************************************************************************)
(* Generic skip traversal.                                                 *)
(***************************************************************************)
\* depth - 1 on uint32_t
depth_dec(depth) == IF depth = 0 THEN UINT32_WRAP ELSE depth - 1

\* A varint read by bserial_skip_next: its failure is returned but not
\* stored in ctx->status.
skip_read_uint(c) ==
    LET rd == bserial_read_uint(c.in)
    IN  [c |-> [c EXCEPT !.in = rd.in], r |-> rd.r, x |-> rd.x]

\* ctx->status = bserial_skip(ctx->in, size).  The streams of a context are
\* BSERIAL_MEM streams, which always have a skip callback, so the block loop
\* and its outcome are never taken here.
ctx_skip(c, size) ==
    LET sk == bserial_skip(c.in, size, [in |-> c.in, r |-> BSERIAL_IO_ERROR])
    IN  [c |-> [c EXCEPT !.in = sk.in, !.status = sk.r], r |-> sk.r]

\* The status part of a result.
Status(o) == [c |-> o.c, r |-> o.r]

\* n calls of bserial_symbol with a local destination.
RECURSIVE skip_symbols(_, _)
skip_symbols(c, n) ==
    LET next(sy) ==
            IF sy.r # BSERIAL_OK THEN Status(sy) ELSE skip_symbols(sy.c, n - 1)
    IN  IF n = 0 THEN [c |-> c, r |-> BSERIAL_OK]
        ELSE next(bserial_symbol(c, NULL, UNINIT, << >>))

RECURSIVE bserial_skip_next(_, _)
RECURSIVE skip_values(_, _, _)

\* n calls of bserial_skip_next(ctx, depth).
skip_values(c, n, depth) ==
    LET next(sk) ==
            IF sk.r # BSERIAL_OK THEN sk ELSE skip_values(sk.c, n - 1, depth)
    IN  IF n = 0 THEN [c |-> c, r |-> BSERIAL_OK]
        ELSE next(bserial_skip_next(c, depth))

\* case BSERIAL_BLOB, after the length was read
skip_blob(rl) ==
    IF rl.r # BSERIAL_OK THEN Status(rl) ELSE ctx_skip(rl.c, rl.x)

\* case BSERIAL_ARRAY, after the length was read
skip_array(rl, depth) ==
    IF rl.r # BSERIAL_OK THEN Status(rl)
    ELSE IF rl.x > 0 /\ depth = 0 THEN bserial_malformed(rl.c)
    ELSE skip_values(rl.c, rl.x, depth_dec(depth))

\* The values of a table or of a record, after its field names were read.
skip_body(sy, num_values, depth) ==
    IF sy.r # BSERIAL_OK THEN sy
    ELSE skip_values(sy.c, num_values, depth_dec(depth))

\* case BSERIAL_TABLE, after the number of columns was read
skip_table_cols(rc, num_rows, depth) ==
    IF rc.r # BSERIAL_OK THEN Status(rc)
    ELSE skip_body(skip_symbols(rc.c, rc.x), num_rows * rc.x, depth)

\* case BSERIAL_TABLE, after the number of rows was read
skip_table(rr, depth) ==
    IF rr.r # BSERIAL_OK THEN Status(rr)
    ELSE IF rr.x > 0 /\ depth = 0 THEN bserial_malformed(rr.c)
    ELSE skip_table_cols(skip_read_uint(rr.c), rr.x, depth)

\* case BSERIAL_RECORD, after the number of fields was read
skip_record(rc, depth) ==
    IF rc.r # BSERIAL_OK THEN Status(rc)
    ELSE skip_body(skip_symbols(rc.c, rc.x), rc.x, depth)

\* The switch of bserial_skip_next on the marker that was peeked.
skip_switch(pk, depth) ==
    IF pk.r # BSERIAL_OK THEN Status(pk)
    ELSE IF pk.marker = BSERIAL_UINT THEN Status(bserial_uint(pk.c, UNINIT))
    ELSE IF pk.marker = BSERIAL_SINT THEN Status(bserial_sint(pk.c, UNINIT))
    ELSE IF pk.marker = BSERIAL_F32
    THEN ctx_skip(bserial_discard_marker(pk.c), 4)
    ELSE IF pk.marker = BSERIAL_F64
    THEN ctx_skip(bserial_discard_marker(pk.c), 8)
    ELSE IF pk.marker = BSERIAL_BLOB
    THEN skip_blob(skip_read_uint(bserial_discard_marker(pk.c)))
    ELSE IF pk.marker = BSERIAL_SYM_DEF \/ pk.marker = BSERIAL_SYM_REF
    THEN skip_symbols(pk.c, 1)
    ELSE IF pk.marker = BSERIAL_ARRAY
    THEN skip_array(skip_read_uint(bserial_discard_marker(pk.c)), depth)
    ELSE IF pk.marker = BSERIAL_TABLE
    THEN skip_table(skip_read_uint(bserial_discard_marker(pk.c)), depth)
    ELSE IF pk.marker = BSERIAL_RECORD
    THEN skip_record(skip_read_uint(bserial_discard_marker(pk.c)), depth)
    ELSE bserial_malformed(pk.c)

bserial_skip_next(c, depth) == skip_switch(bserial_peek_marker(c), depth)

(***************************************************************************)
(* Records.                                                                *)
(***************************************************************************)
\* Entry i of the schema array that starts at pool entry `base`.
SchemaIdx(base, i) == base + i

InPool(c, idx) == idx >= 1 /\ idx <= SchemaPoolLen(c.config)

\* record_schema[i].field_name as the program reads it: `garbage` stands for
\* the indeterminate content of memory that was never written, or that lies
\* past the end of the pool.
field_name_at(c, base, i, garbage) ==
    IF InPool(c, SchemaIdx(base, i))
    THEN IF c.schema[SchemaIdx(base, i)].field_name = UNINIT
         THEN garbage ELSE c.schema[SchemaIdx(base, i)].field_name
    ELSE garbage

\* A probe that stops at the next wire field whether or not the procedure
\* asked for it.
probe_unfiltered(c) ==
    IF Cur(c).iterator < Cur(c).len
    THEN [c |-> c, r |-> TRUE]
    ELSE [c |-> bserial_end_op(c, BSERIAL_OP_RECORD).c, r |-> FALSE]

RECURSIVE bserial_probe_next_record_field(_)

\* The loop of bserial_probe_next_record_field after a field was skipped.
probe_skipped(sk) ==
    IF sk.r # BSERIAL_OK THEN [c |-> sk.c, r |-> FALSE]
    ELSE bserial_probe_next_record_field(
             SetCur(sk.c, [Cur(sk.c) EXCEPT !.iterator = Cur(sk.c).iterator + 1]))

bserial_probe_next_record_field(c) ==
    IF Cur(c).iterator < Cur(c).len
    THEN IF c.schema[SchemaIdx(Cur(c).record_schema,
                               Cur(c).iterator)].field_name # NULL
         THEN [c |-> c, r |-> TRUE]
         ELSE probe_skipped(bserial_skip_next(c,
                                c.config.max_depth - (Len(c.scopes) - 1)))
    ELSE [c |-> bserial_end_op(c, BSERIAL_OP_RECORD).c, r |-> FALSE]

\* Schema discovery: the loop of bserial_record that reads the field names
\* of a record into the schema array starting at pool entry `base`.
RECURSIVE record_discover(_, _, _, _)
record_discover(c, i, num_fields, base) ==
    LET next(sy) ==
            IF sy.r # BSERIAL_OK THEN Status(sy)
            ELSE record_discover(
                     [sy.c EXCEPT !.schema[SchemaIdx(base, i)] =
                         [@ EXCEPT !.symbol = sy.buf, !.symbol_len = sy.len]],
                     i + 1, num_fields, base)
    IN  IF i >= num_fields THEN [c |-> c, r |-> BSERIAL_OK]
        ELSE next(bserial_symbol(SetCur(c, [Cur(c) EXCEPT !.iterator = i]),
                                 NULL, UNINIT, << >>))

\* The result of a bool-returning operation from a status-returning one.
Refused(o) == [c |-> o.c, r |-> FALSE]

\* Index in ctx->scopes of the scope that owns the schema of the record in
\* the innermost scope: the table's for a row, the record's own otherwise.
schema_scope(c) ==
    IF c.scopes[Len(c.scopes) - 1].type = BSERIAL_SCOPE_TABLE
    THEN Len(c.scopes) - 1 ELSE Len(c.scopes)

\* The field_name marks of the schema are cleared and its width is stored.
schema_cleared(c, num_fields) ==
    [c EXCEPT
        !.schema = [k \in DOMAIN c.schema |->
                       IF k >= c.scopes[schema_scope(c)].record_schema
                          /\ k < c.scopes[schema_scope(c)].record_schema + num_fields
                       THEN [c.schema[k] EXCEPT !.field_name = NULL]
                       ELSE c.schema[k]],
        !.scopes[schema_scope(c)].record_width = num_fields]

\* Schema discovery, after the number of fields was read into rn.
record_counted(c, rn) ==
    IF rn.r # BSERIAL_OK
    THEN [c |-> [c EXCEPT !.in = rn.in, !.status = rn.r], r |-> rn.r]
    ELSE IF rn.x > c.config.max_record_fields
    THEN bserial_malformed([c EXCEPT !.in = rn.in, !.status = rn.r])
    ELSE record_discover(
             schema_cleared([c EXCEPT !.in = rn.in, !.status = rn.r], rn.x),
             0, rn.x, c.scopes[schema_scope(c)].record_schema)

\* The record mode is chosen and, in KeyIO, the schema is discovered.
record_schema_read(c) ==
    IF schema_scope(c) = Len(c.scopes) \/ c.scopes[Len(c.scopes) - 1].iterator = 1
    THEN record_counted(
             SetCur(c, [Cur(c) EXCEPT !.record_mode = BSERIAL_RECORD_KEY_IO]),
             bserial_read_uint(c.in))
    ELSE [c |-> SetCur(c, [Cur(c) EXCEPT
                    !.record_mode = BSERIAL_RECORD_VALUE_IO]),
          r |-> BSERIAL_OK]

\* The record marker, which a table row does not have, was read into m.
record_marked(m) ==
    IF m.r # BSERIAL_OK THEN Status(m)
    ELSE IF marker_differs(m.marker, BSERIAL_RECORD) THEN bserial_malformed(m.c)
    ELSE record_schema_read(m.c)

\* The record scope was entered by b; its address is stored.
record_entered(b, record) ==
    IF b.r # BSERIAL_OK THEN Status(b)
    ELSE IF b.c.scopes[Len(b.c.scopes) - 1].type = BSERIAL_SCOPE_TABLE
    THEN record_schema_read(
             SetCur(b.c, [Cur(b.c) EXCEPT !.record_addr = record]))
    ELSE record_marked(bserial_read_marker(
             SetCur(b.c, [Cur(b.c) EXCEPT !.record_addr = record])))

\* The end of the read branch: the scope takes the schema and its width.
record_bound(o) ==
    IF o.r # BSERIAL_OK THEN Refused(o)
    ELSE IF Cur(o.c).record_mode = BSERIAL_RECORD_VALUE_IO
    THEN bserial_probe_next_record_field(
             SetCur(o.c, [Cur(o.c) EXCEPT
                 !.record_schema = o.c.scopes[schema_scope(o.c)].record_schema,
                 !.len = o.c.scopes[schema_scope(o.c)].record_width]))
    ELSE [c |-> SetCur(o.c, [Cur(o.c) EXCEPT
                    !.iterator = 0,
                    !.record_schema = o.c.scopes[schema_scope(o.c)].record_schema,
                    !.len = o.c.scopes[schema_scope(o.c)].record_width]),
          r |-> TRUE]

\* The read branch of bserial_record for a record that is not the one being
\* iterated: a new record scope is entered.
record_read_begin(c, record) ==
    record_bound(record_entered(bserial_begin_op(c, BSERIAL_OP_RECORD), record))

\* A writer that takes every row of a table for its first.
record_measured_always(c) == TRUE

\* Whether the record scope just pushed on c starts by measuring its width:
\* parent_scope->type != BSERIAL_SCOPE_TABLE || parent_scope->iterator == 1
record_measured(c) ==
    \/ c.scopes[Len(c.scopes) - 1].type # BSERIAL_SCOPE_TABLE
    \/ c.scopes[Len(c.scopes) - 1].iterator = 1

\* The write branch of bserial_record for a record that is not the one
\* being iterated.
record_write_begin(c, record) ==
    LET parent_is_table == Cur(c).type = BSERIAL_SCOPE_TABLE
        wrote(wr) == [c |-> wr.c, r |-> wr.r = BSERIAL_OK]
        measure(cc) ==
            IF ~parent_is_table THEN wrote(ctx_write(cc, <<BSERIAL_RECORD>>))
            ELSE [c |-> cc, r |-> TRUE]
        addressed(cc) ==
            IF record_measured(cc)
            THEN measure(SetCur(cc, [Cur(cc) EXCEPT
                             !.record_mode = BSERIAL_RECORD_MEASURE_WIDTH]))
            ELSE [c |-> SetCur(cc, [Cur(cc) EXCEPT
                            !.record_mode = BSERIAL_RECORD_VALUE_IO]),
                  r |-> TRUE]
        begun(b) ==
            IF b.r # BSERIAL_OK THEN Refused(b)
            ELSE addressed(SetCur(b.c, [Cur(b.c) EXCEPT !.record_addr = record]))
    IN  begun(bserial_begin_op(c, BSERIAL_OP_RECORD))

\* A measuring pass that is followed by the value pass at once.
record_measure_done_early(c) ==
    SetCur(c, [Cur(c) EXCEPT !.record_mode = BSERIAL_RECORD_VALUE_IO])

\* case BSERIAL_RECORD_MEASURE_WIDTH of the writer:
\* scope->record_mode = BSERIAL_RECORD_KEY_IO
record_measure_done(c) ==
    SetCur(c, [Cur(c) EXCEPT !.record_mode = BSERIAL_RECORD_KEY_IO])

\* bserial_record(ctx, record): `record` is the address the caller passes.
bserial_record(c, record) ==
    LET width_written(wr) == [c |-> wr.c, r |-> wr.c.status = BSERIAL_OK]
    IN  IF c.status # BSERIAL_OK THEN [c |-> c, r |-> FALSE]
        ELSE IF bserial_mode(c) = BSERIAL_MODE_READ
        THEN IF Cur(c).type = BSERIAL_SCOPE_RECORD /\ record = Cur(c).record_addr
             THEN IF Cur(c).record_mode = BSERIAL_RECORD_KEY_IO
                  THEN bserial_probe_next_record_field(
                           SetCur(c, [Cur(c) EXCEPT
                               !.record_mode = BSERIAL_RECORD_VALUE_IO,
                               !.iterator = 0]))
                  ELSE IF Cur(c).record_mode = BSERIAL_RECORD_VALUE_IO
                  THEN IF Cur(c).iterator = Cur(c).len
                       THEN Refused(bserial_end_op(c, BSERIAL_OP_RECORD))
                       ELSE bserial_probe_next_record_field(c)
                  ELSE Refused(bserial_malformed(c))
             ELSE record_read_begin(c, record)
        ELSE IF Cur(c).type = BSERIAL_SCOPE_RECORD /\ Cur(c).record_addr = record
             THEN IF Cur(c).record_mode = BSERIAL_RECORD_MEASURE_WIDTH
                  THEN width_written(
                           ctx_write(record_measure_done(c),
                                     write_uint_bytes(Cur(c).len)))
                  ELSE IF Cur(c).record_mode = BSERIAL_RECORD_KEY_IO
                  THEN [c |-> SetCur(c, [Cur(c) EXCEPT
                                  !.record_mode = BSERIAL_RECORD_VALUE_IO,
                                  !.iterator = 0]),
                        r |-> TRUE]
                  ELSE IF Cur(c).record_mode = BSERIAL_RECORD_VALUE_IO
                  THEN Refused(bserial_end_op(c, BSERIAL_OP_RECORD))
                  ELSE Refused(bserial_malformed(c))
             ELSE record_write_begin(c, record)

\* A comparison of the lengths alone.
schema_named_by_len(c, idx, name, len) == c.schema[idx].symbol_len = len

\* record_schema[i].symbol_len == len
\* && strncmp(record_schema[i].symbol, name, len) == 0
schema_named(c, idx, name, len) ==
    /\ c.schema[idx].symbol_len = len
    /\ strncmp_eq(PoolStr(c, c.schema[idx].symbol), NameText(name) \o <<0>>, len)

\* The matching loop of bserial_key in Read/KeyIO.
RECURSIVE key_match(_, _, _, _)
key_match(c, i, name, len) ==
    LET idx == SchemaIdx(Cur(c).record_schema, i)
    IN  IF i >= Cur(c).len THEN c
        ELSE IF schema_named(c, idx, name, len)
        THEN key_match([c EXCEPT !.schema[idx].field_name = name], i + 1, name, len)
        ELSE key_match(c, i + 1, name, len)

\* A measuring pass that forgets to count the key.
key_unmeasured(c) == c

\* bserial_key in Write/MEASURE_WIDTH: ++scope->len
key_measured(c) == SetCur(c, [Cur(c) EXCEPT !.len = Cur(c).len + 1])

\* bserial_key once the status was found Ok.
key_checked(c, name, len, garbage) ==
    LET advanced(cc) ==
            SetCur(cc, [Cur(cc) EXCEPT !.iterator = Cur(cc).iterator + 1])
    IN  IF Cur(c).type # BSERIAL_SCOPE_RECORD
        THEN Refused(bserial_malformed(c))
        ELSE IF bserial_mode(c) = BSERIAL_MODE_READ
        THEN IF Cur(c).record_mode = BSERIAL_RECORD_KEY_IO
             THEN [c |-> advanced(key_match(c, 0, name, len)), r |-> FALSE]
             ELSE IF Cur(c).record_mode = BSERIAL_RECORD_VALUE_IO
             THEN IF name = field_name_at(c, Cur(c).record_schema,
                                          Cur(c).iterator, garbage)
                  THEN [c |-> advanced(c), r |-> TRUE]
                  ELSE [c |-> c, r |-> FALSE]
             ELSE Refused(bserial_malformed(c))
        ELSE IF Cur(c).record_mode = BSERIAL_RECORD_MEASURE_WIDTH
        THEN [c |-> key_measured(c), r |-> FALSE]
        ELSE IF Cur(c).record_mode = BSERIAL_RECORD_KEY_IO
        THEN Refused(bserial_symbol(advanced(c), name, len, NameText(name)))
        ELSE IF Cur(c).record_mode = BSERIAL_RECORD_VALUE_IO
        THEN [c |-> advanced(c), r |-> TRUE]
        ELSE Refused(bserial_malformed(c))

\* A bserial_key that does not look at the status.
key_unlatched(c, name, len, garbage) == key_checked(c, name, len, garbage)

\* bserial_key(ctx, name, len): `name` is a pointer to the caller's literal;
\* `garbage` is what a schema entry that was never written holds.
bserial_key(c, name, len, garbage) ==
    IF c.status # BSERIAL_OK THEN [c |-> c, r |-> FALSE]
    ELSE key_checked(c, name, len, garbage)

(***************************************************************************)
(* The caller.  A value is a tree of nodes; the program to serialize is a  *)
(* sequence of top-level values.  The writer visits the nodes of its       *)
(* program; the reader visits the same program through its own record      *)
(* procedure, which asks for the field names of rproc, in that order, in   *)
(* every record it reads.  The caller never looks at a returned status: it *)
(* chains its operations and leaves the check to the end.                  *)
(***************************************************************************)
Node(k, v, b, e, f) == [k |-> k, v |-> v, b |-> b, e |-> e, f |-> f]
U(x) == Node("uint", x, << >>, << >>, << >>)
S(x) == Node("sint", x, << >>, << >>, << >>)
F32(x) == Node("f32", x, << >>, << >>, << >>)
F64(x) == Node("f64", x, << >>, << >>, << >>)
B(bytes) == Node("blob", 0, bytes, << >>, << >>)
Y(name) == Node("symbol", name, << >>, << >>, << >>)
A(elems) == Node("array", 0, << >>, elems, << >>)
T(rows) == Node("table", 0, << >>, rows, << >>)
R(fields) == Node("record", 0, << >>, << >>, fields)
Fld(name, val) == [name |-> name, val |-> val]
\* A destination the engine never stored into.
Unset == Node("unset", 0, << >>, << >>, << >>)

\* One frame of the caller's own call stack.
Frame(k, items, fields, addr) ==
    [k |-> k, items |-> items, i |-> 1, acc |-> << >>,
     fields |-> fields, pos |-> 0, inval |-> FALSE, addr |-> addr]

VARIABLES
    ctx,      \* the serialization context in use (the writer's, then the reader's)
    phase,    \* "write", "written", "read" or "done"
    prog,     \* the program: the top-level values the writer serializes
    stk,      \* the caller's call stack
    rproc,    \* how the reader's record procedure relates to the writer's
    wconf,    \* the writer's configuration
    cut,      \* number of bytes the reader's input lacks at its end
    op,       \* the public operation called last
    ret,      \* what it returned: a status, or "true"/"false"
    wdefs     \* the distinct texts the writer interned, in first-occurrence
              \* order, each with the length of the output once it was defined

vars == <<ctx, phase, prog, stk, rproc, wconf, cut, op, ret, wdefs>>

Top == stk[Len(stk)]

Writing == phase = "write"
Reading == phase = "read"
Active == Writing \/ Reading

\* The caller is about to serialize a value.
AtValue ==
    /\ Active
    /\ \/ Top.k \in {"root", "array", "table"} /\ Top.i <= Len(Top.items)
       \/ Top.k = "record" /\ Top.inval

\* The node the caller is about to serialize.
ValNode == IF Top.k = "record" THEN Top.fields[Top.pos].val ELSE Top.items[Top.i]

\* The record value a record frame has gathered.
RecRes(fr) == R([j \in 1..Len(fr.fields) |-> Fld(fr.fields[j].name, fr.acc[j])])

\* The caller's stack once the value it was serializing is complete, r being
\* what it got: the enclosing array or table is left with its last element,
\* the enclosing record body goes on to its next key.  A call that stored
\* nothing leaves the field of a record as it was.
RECURSIVE ValueDone(_, _)
ValueDone(s, r) ==
    LET t == s[Len(s)]
        rest == SubSeq(s, 1, Len(s) - 1)
    IN  IF t.k = "record"
        THEN Append(rest, [t EXCEPT !.acc[t.pos] = IF r = Unset THEN t.acc[t.pos]
                                                   ELSE r,
                                    !.inval = FALSE,
                                    !.pos = IF t.pos = Len(t.fields) THEN 0
                                            ELSE t.pos + 1])
        ELSE IF t.k = "root" \/ t.i < Len(t.items)
        THEN Append(rest, [t EXCEPT !.acc = Append(t.acc, r), !.i = t.i + 1])
        ELSE ValueDone(rest, Node(t.k, 0, << >>, Append(t.acc, r), << >>))

RootDone(s) == Len(s) = 1 /\ s[1].i > Len(s[1].items)

\* The bookkeeping every public operation shares.
Called(name, c, r, s) ==
    /\ ctx' = c
    /\ op' = name
    /\ ret' = r
    /\ stk' = s
    /\ phase' = IF RootDone(s) THEN (IF Writing THEN "written" ELSE "done")
                ELSE phase
    /\ UNCHANGED <<prog, rproc, wconf, cut>>

NoDefs == wdefs' = wdefs

DefTexts == {wdefs[j].text : j \in 1..Len(wdefs)}

\* The writer interned `text` by a call that left the context c.
Interned(text, c) ==
    wdefs' = IF Writing /\ c.status = BSERIAL_OK /\ text \notin DefTexts
             THEN Append(wdefs, [text |-> text, end |-> Len(c.out.mem)])
             ELSE wdefs

\* The result of a scalar operation, as the caller's variable holds it.
ScalarRes(o) ==
    IF Writing THEN ValNode
    ELSE IF o.r = BSERIAL_OK THEN Node(ValNode.k, o.v, << >>, << >>, << >>)
    ELSE Unset

\* The value the caller passes to a scalar operation: the value to write,
\* or the content of its variable before a read.
ScalarArg == IF Writing THEN ValNode.v ELSE 0

\* A scalar operation was called and gave o.
ScalarCalled(name, o) ==
    /\ Called(name, o.c, o.r, ValueDone(stk, ScalarRes(o)))
    /\ NoDefs

Uint ==
    /\ AtValue /\ ValNode.k = "uint"
    /\ ScalarCalled("uint", bserial_uint(ctx, ScalarArg))

Sint ==
    /\ AtValue /\ ValNode.k = "sint"
    /\ ScalarCalled("sint", bserial_sint(ctx, ScalarArg))

F32Op ==
    /\ AtValue /\ ValNode.k = "f32"
    /\ ScalarCalled("f32", bserial_f32(ctx, ScalarArg))

F64Op ==
    /\ AtValue /\ ValNode.k = "f64"
    /\ ScalarCalled("f64", bserial_f64(ctx, ScalarArg))

BlobHeaderCalled(o) ==
    /\ Called("blob_header", o.c, o.r,
              Append(stk, Frame("blob", <<ValNode>>, << >>, NULL)))
    /\ NoDefs

BlobHeader ==
    /\ AtValue /\ ValNode.k = "blob"
    /\ BlobHeaderCalled(bserial_blob_header(ctx, IF Writing THEN Len(ValNode.b)
                                                 ELSE 0))

BlobBodyCalled(o) ==
    /\ Called("blob_body", o.c, o.r,
              ValueDone(SubSeq(stk, 1, Len(stk) - 1),
                        IF Writing THEN Top.items[1]
                        ELSE IF o.r = BSERIAL_OK THEN B(o.v) ELSE Unset))
    /\ NoDefs

BlobBody ==
    /\ Active /\ Top.k = "blob"
    /\ BlobBodyCalled(bserial_blob_body(ctx, IF Writing THEN Top.items[1].b
                                             ELSE << >>))

SymbolCalled(o) ==
    /\ Called("symbol", o.c, o.r,
              ValueDone(stk, IF Writing THEN ValNode
                             ELSE IF o.r = BSERIAL_OK
                             THEN Node("symbol", 0, SymText(o.c, o.buf, o.len),
                                       << >>, << >>)
                             ELSE Unset))
    /\ IF Writing THEN Interned(NameText(ValNode.v), o.c) ELSE NoDefs

Symbol ==
    /\ AtValue /\ ValNode.k = "symbol"
    /\ SymbolCalled(IF Writing
                    THEN bserial_symbol(ctx, ValNode.v, Len(NameText(ValNode.v)),
                                        NameText(ValNode.v))
                    ELSE bserial_symbol(ctx, NULL, 0, << >>))

\* The elements the caller visits in a compound of n elements: those of the
\* plan, made up to n with `pad` when the stream announces more.
Padded(elems, n, pad) ==
    [j \in 1..n |-> IF j <= Len(elems) THEN elems[j] ELSE pad]

\* bserial_array or bserial_table was called and gave o; `pad` is what the
\* caller's elements are when the stream announces more than the plan has.
CompoundCalled(name, o, pad) ==
    /\ Called(name, o.c, o.r,
              IF o.r = BSERIAL_OK /\ o.v > 0
              THEN Append(stk, Frame(name, Padded(ValNode.e, o.v, pad),
                                     << >>, NULL))
              ELSE ValueDone(stk, IF o.r = BSERIAL_OK
                                  THEN Node(name, 0, << >>, << >>, << >>)
                                  ELSE Unset))
    /\ NoDefs

Array ==
    /\ AtValue /\ ValNode.k = "array"
    /\ CompoundCalled("array",
                      bserial_array(ctx, IF Writing THEN Len(ValNode.e) ELSE 0),
                      U(0))

Table ==
    /\ AtValue /\ ValNode.k = "table"
    /\ CompoundCalled("table",
                      bserial_table(ctx, IF Writing THEN Len(ValNode.e) ELSE 0),
                      R(<< >>))

\* The reader's record procedures, by their relation to the writer's.
Procedures == {"same", "rev", "swap", "first", "last", "none", "ab"}

\* The caller is at a row of a table that is not the first.
LaterRow == Top.k = "table" /\ Top.i > 1

\* The field names the record procedure visits, in order, for a record that
\* the writer wrote from `node`.
Requested(node, proc) ==
    LET n == Len(node.f)
    IN  IF proc = "same" THEN [j \in 1..n |-> node.f[j].name]
        ELSE IF proc = "rev" \/ (proc = "swap" /\ LaterRow)
        THEN [j \in 1..n |-> node.f[n + 1 - j].name]
        ELSE IF proc = "swap" THEN [j \in 1..n |-> node.f[j].name]
        ELSE IF proc = "first" /\ n > 0 THEN <<node.f[1].name>>
        ELSE IF proc = "last" /\ n > 0 THEN <<node.f[n].name>>
        ELSE IF proc = "ab" THEN <<1, 2>>
        ELSE << >>

\* Whether the record written from `node` has a field named like `name`.
OnWire(node, name) ==
    \E j \in 1..Len(node.f) : NameText(node.f[j].name) = NameText(name)

WireVal(node, name) ==
    node.f[CHOOSE j \in 1..Len(node.f) :
               NameText(node.f[j].name) = NameText(name)].val

\* The fields the record procedure visits: the writer's are those of the
\* plan; a field the reader asks for and the writer never wrote is an
\* unsigned integer variable.
FieldsOf(node) ==
    IF Writing
    THEN [j \in 1..Len(node.f) |->
             [name |-> node.f[j].name, val |-> node.f[j].val, present |-> TRUE]]
    ELSE LET req == Requested(node, rproc)
         IN  [j \in 1..Len(req) |->
                 IF OnWire(node, req[j])
                 THEN [name |-> req[j], val |-> WireVal(node, req[j]),
                       present |-> TRUE]
                 ELSE [name |-> req[j], val |-> U(0), present |-> FALSE]]

\* The address of the record variable of the procedure at this call depth.
RecordBase == 100
RecordAddr(depth) == RecordBase + depth

Bool(b) == IF b THEN "true" ELSE "false"

\* The caller's frame for the record it is about to enter.
NewRecord ==
    [Frame("record", <<ValNode>>, FieldsOf(ValNode), RecordAddr(Len(stk)))
        EXCEPT !.acc = [j \in 1..Len(FieldsOf(ValNode)) |-> Unset],
               !.pos = IF Len(FieldsOf(ValNode)) > 0 THEN 1 ELSE 0]

\* The first call of bserial_record for a record value gave o.
RecordEntered(o) ==
    /\ Called("record", o.c, Bool(o.r),
              IF o.r THEN Append(stk, NewRecord)
              ELSE ValueDone(stk, IF Writing THEN ValNode ELSE RecRes(NewRecord)))
    /\ NoDefs

\* A later call of bserial_record, at the head of the record loop, gave o.
RecordLooped(o) ==
    /\ Called("record", o.c, Bool(o.r),
              IF o.r
              THEN Append(SubSeq(stk, 1, Len(stk) - 1),
                          [Top EXCEPT !.pos = IF Len(Top.fields) > 0 THEN 1 ELSE 0])
              ELSE ValueDone(SubSeq(stk, 1, Len(stk) - 1),
                             IF Writing THEN Top.items[1] ELSE RecRes(Top)))
    /\ NoDefs

AtRecord == AtValue /\ ValNode.k = "record"
AtLoop == Active /\ Top.k = "record" /\ Top.pos = 0 /\ ~Top.inval

\* bserial_record as the head of the record loop: the first call for a
\* record value, or a later call of the loop.
Record ==
    \/ AtRecord /\ RecordEntered(bserial_record(ctx, RecordAddr(Len(stk))))
    \/ AtLoop /\ RecordLooped(bserial_record(ctx, Top.addr))

\* The name bserial_key is about to be called with.
KeyName == Top.fields[Top.pos].name

AtKey == Active /\ Top.k = "record" /\ Top.pos > 0 /\ ~Top.inval

\* What a read of memory that was never written may yield.
Garbage == {NULL} \cup NamePtrs

\* The writer is about to emit the name of a field.
WritesName ==
    /\ Writing /\ ctx.status = BSERIAL_OK
    /\ Cur(ctx).type = BSERIAL_SCOPE_RECORD
    /\ Cur(ctx).record_mode = BSERIAL_RECORD_KEY_IO

KeyCalled(o) ==
    /\ Called("key", o.c, Bool(o.r),
              Append(SubSeq(stk, 1, Len(stk) - 1),
                     IF o.r THEN [Top EXCEPT !.inval = TRUE]
                     ELSE [Top EXCEPT !.pos = IF Top.pos = Len(Top.fields) THEN 0
                                              ELSE Top.pos + 1]))
    /\ IF WritesName THEN Interned(NameText(KeyName), o.c) ELSE NoDefs

Key ==
    /\ AtKey
    /\ \E garbage \in Garbage :
           KeyCalled(bserial_key(ctx, KeyName, Len(NameText(KeyName)), garbage))

(***************************************************************************)
(* The programs: the values a run writes and then reads back.              *)
(***************************************************************************)
RecA == R(<<Fld(1, U(7))>>)
RecB == R(<<Fld(2, U(7))>>)
RecAB == R(<<Fld(1, U(7)), Fld(2, U(200))>>)
RecBA == R(<<Fld(2, U(6)), Fld(1, U(7))>>)

Leaves ==
    { U(7), U(200), S(-3), F32(1065353216), F64(258), B(<< >>), B(<<9>>),
      Y(1), Y(3), Y(4) }

Compounds ==
    { A(<< >>), A(<<U(7)>>), A(<<U(7), U(200)>>), A(<<A(<<U(7)>>)>>),
      A(<<RecB>>), A(<<A(<<A(<<U(7)>>)>>)>>),
      T(<< >>), T(<<RecB>>), T(<<RecAB, RecAB>>),
      R(<< >>), RecA, RecB, RecAB, R(<<Fld(2, A(<<U(7)>>))>>) }

Vals == Leaves \cup Compounds

Programs ==
    {<<v>> : v \in Vals}
    \cup {<<R(<<Fld(1, v)>>)>> : v \in Vals}
    \cup {<<R(<<Fld(1, U(7)), Fld(2, v)>>)>> : v \in Vals}
    \cup {<<R(<<Fld(1, v), Fld(2, U(200))>>)>> : v \in Vals}
    \cup {<<r1, r2>> : r1 \in {RecAB}, r2 \in {RecA, RecB, RecBA}}
    \cup {<<RecA, RecAB>>, <<Y(1), Y(4), Y(3)>>, <<Y(3), Y(5)>>,
          <<A(<<A(<<A(<<A(<<U(7)>>)>>)>>)>>)>>,
          <<A(<<A(<<U(7)>>)>>), U(7)>>}
    \cup {<<R(<<Fld(1, T(<< >>))>>), U(x), U(y)>> : x \in {6, 7}, y \in {6, 7}}

\* Capacity of an output sink that holds every program of the model.
SinkCap == 64

Config(depth) ==
    [max_depth |-> depth, max_record_fields |-> MaxFields,
     max_num_symbols |-> MaxSymbols, max_symbol_len |-> MaxSymLen]

Depths == 2..MaxDepth

Root(items) == Frame("root", items, << >>, NULL)

Init ==
    /\ prog \in Programs
    /\ \E d \in Depths, cap \in {MaxOut, SinkCap} :
          /\ wconf = Config(d)
          /\ ctx = bserial_make_ctx(Config(d), NoIn, bserial_mem_init_out(cap))
    /\ phase = "write"
    /\ stk = <<Root(prog)>>
    /\ rproc = "same"
    /\ cut = 0
    /\ op = "make_ctx"
    /\ ret = BSERIAL_OK
    /\ wdefs = << >>

\* A reader is made over what the writer produced, or over all but its
\* last bytes: a fresh context with its own configuration and procedure.
MakeReader ==
    /\ phase = "written" /\ ctx.status = BSERIAL_OK
    /\ \E d \in Depths, n \in 0..MaxCut, p \in Procedures :
          /\ n <= Len(ctx.out.mem)
          /\ ctx' = bserial_make_ctx(Config(d),
                        bserial_mem_init_in(
                            SubSeq(ctx.out.mem, 1, Len(ctx.out.mem) - n), TRUE),
                        NoOut)
          /\ rproc' = p
          /\ cut' = n
    /\ phase' = "read"
    /\ stk' = <<Root(prog)>>
    /\ op' = "make_ctx"
    /\ ret' = BSERIAL_OK
    /\ UNCHANGED <<prog, wconf, wdefs>>

Next ==
    \/ Uint
    \/ Sint
    \/ F32Op
    \/ F64Op
    \/ BlobHeader
    \/ BlobBody
    \/ Symbol
    \/ Array
    \/ Table
    \/ Record
    \/ Key
    \/ MakeReader

Spec == Init /\ [][Next]_vars

(***************************************************************************)
(* What a run delivered, compared with what was written.                   *)
(***************************************************************************)
\* The values the reader's top-level calls delivered.
Delivered == stk[1].acc

\* The value `res` the reader holds is the written value `plan`, as far as
\* the reader asked for it: a record is compared field by field, by name,
\* and a field the writer never wrote is still unset.
RECURSIVE Matches(_, _)
Matches(plan, res) ==
    IF plan.k = "symbol" THEN res.k = "symbol" /\ res.b = NameText(plan.v)
    ELSE IF plan.k \in {"array", "table"}
    THEN /\ res.k = plan.k
         /\ Len(res.e) = Len(plan.e)
         /\ \A j \in 1..Len(plan.e) : Matches(plan.e[j], res.e[j])
    ELSE IF plan.k = "record"
    THEN /\ res.k = "record"
         /\ \A j \in 1..Len(res.f) :
               IF OnWire(plan, res.f[j].name)
               THEN Matches(WireVal(plan, res.f[j].name), res.f[j].val)
               ELSE res.f[j].val = Unset
    ELSE res = plan

\* The reader read all of the writer's output with the writer's configuration.
SameSetup == cut = 0 /\ ctx.config = wconf

AllMatch ==
    /\ Len(Delivered) = Len(prog)
    /\ \A i \in 1..Len(prog) : Matches(prog[i], Delivered[i])

(***************************************************************************)
(* C1.  Round trip: a reader whose record procedure visits the written     *)
(* field names, in the writer's order or in the reverse order, over the    *)
(* whole output and with the writer's configuration, ends with status Ok   *)
(* and holds, field by field and by name, the values that were written.    *)
(***************************************************************************)
C1_RoundTrip ==
    (phase = "done" /\ rproc \in {"same", "rev"} /\ SameSetup)
        => (ctx.status = BSERIAL_OK /\ AllMatch)

\* Some record of the tree `plan` has a field the procedure `proc` does not
\* ask for.
RECURSIVE HasUnrequested(_, _)
HasUnrequested(plan, proc) ==
    \/ plan.k = "record" /\ Len(Requested(plan, proc)) < Len(plan.f)
    \/ \E j \in 1..Len(plan.e) : HasUnrequested(plan.e[j], proc)
    \/ \E j \in 1..Len(plan.f) : HasUnrequested(plan.f[j].val, proc)

(***************************************************************************)
(* C2.  Forward compatibility: a reader whose record procedure asks for a  *)
(* strict subset of the written fields ends with status Ok and holds       *)
(* exactly the fields it asked for, with the written values, whatever the  *)
(* fields it did not ask for hold.                                         *)
(***************************************************************************)
C2_StrictSubset ==
    (/\ phase = "done" /\ rproc \in {"first", "last", "none"} /\ SameSetup
     /\ \E i \in 1..Len(prog) : HasUnrequested(prog[i], rproc))
        => (ctx.status = BSERIAL_OK /\ AllMatch)

\* The reader is about to call bserial_key with a name the record on the
\* wire does not have.
AtAbsentKey ==
    Reading /\ AtKey /\ ctx.status = BSERIAL_OK /\ ~Top.fields[Top.pos].present

(***************************************************************************)
(* C3.  Backward compatibility: bserial_key called with a name that is     *)
(* absent from the record on the wire answers false, consumes no byte of   *)
(* the stream, leaves the status Ok, and the caller's field is never       *)
(* stored into.                                                            *)
(***************************************************************************)
C3_AbsentField ==
    [][AtAbsentKey => /\ ret' = "false"
                      /\ ctx'.in.cur = ctx.in.cur
                      /\ ctx'.status = BSERIAL_OK
                      /\ ~stk'[Len(stk)].inval]_vars

(***************************************************************************)
(* C4.  The status is monotonic: once it is IoError or Malformed, no       *)
(* operation changes it again.                                             *)
(***************************************************************************)
C4_StatusMonotonic ==
    [][ctx.status # BSERIAL_OK => ctx'.status = ctx.status]_vars

\* The first top-level value failed inside its nested array, and the
\* top-level bserial_uint that follows it was called on the failed context.
C4_Witness ==
    /\ phase = "done" /\ op = "uint"
    /\ ctx.status = BSERIAL_MALFORMED
    /\ Delivered = <<A(<<Unset>>), Unset>>

(***************************************************************************)
(* C5.  After a failure is latched every public operation is a no-op: the  *)
(* context, with its streams, scope stack, schema entries and symbol       *)
(* table, is left as it was, and the operation returns the latched status, *)
(* or false when it is bserial_record or bserial_key.                      *)
(***************************************************************************)
C5_NoOpAfterFailure ==
    [][ctx.status # BSERIAL_OK
           => /\ ctx' = ctx
              /\ ret' = IF op' \in {"record", "key"} THEN "false"
                        ELSE ctx.status]_vars

\* bserial_key, which does no stream I/O when reading, was called on a
\* reader whose status is IoError.
C5_Witness ==
    Reading /\ op = "key" /\ ret = "false" /\ ctx.status = BSERIAL_IO_ERROR

(***************************************************************************)
(* C6.  Every failure is latched: once a read of the input or a write of   *)
(* the output has failed inside an operation, the status is not Ok.        *)
(***************************************************************************)
C6_FailureLatched ==
    (ctx.in.failed \/ ctx.out.failed) => ctx.status # BSERIAL_OK

\* The caller is about to enter a compound value.
AtCompound == AtValue /\ ValNode.k \in {"blob", "array", "table", "record"}

(***************************************************************************)
(* C7.  Depth bound: the scope stack never holds more than max_depth       *)
(* frames, Root included, and entering a blob, array, table or record when *)
(* it holds max_depth frames latches Malformed and pushes no frame.        *)
(***************************************************************************)
C7_DepthBound ==
    /\ [](Len(ctx.scopes) <= ctx.config.max_depth)
    /\ [][(/\ AtCompound /\ ctx.status = BSERIAL_OK
           /\ Len(ctx.scopes) = ctx.config.max_depth)
              => /\ ctx'.status = BSERIAL_MALFORMED
                 /\ Len(ctx'.scopes) = Len(ctx.scopes)]_vars

\* The writer of nested arrays was refused the array that did not fit.
C7_Witness ==
    /\ prog = <<A(<<A(<<A(<<A(<<U(7)>>)>>)>>)>>)>>
    /\ op = "array" /\ ret = BSERIAL_MALFORMED
    /\ wdefs = << >> /\ rproc = "same" /\ cut = 0
    /\ Len(ctx.scopes) = ctx.config.max_depth

\* The depth the skip traversal needs below a value: one level for each
\* nesting of an array with elements, a table with rows or a record with
\* fields.
RECURSIVE Need(_)
Max(set) == CHOOSE m \in set : \A y \in set : y <= m
Need(v) ==
    IF v.k \in {"array", "table"} /\ Len(v.e) > 0
    THEN 1 + Max({Need(v.e[j]) : j \in 1..Len(v.e)})
    ELSE IF v.k = "record" /\ Len(v.f) > 0
    THEN 1 + Max({Need(v.f[j].val) : j \in 1..Len(v.f)})
    ELSE 0

(***************************************************************************)
(* C8.  Skip depth bound: a value that a record read skipped with status   *)
(* Ok nests no deeper than the remaining depth the skip was started with,  *)
(* which for a field of a top-level record is max_depth - 1.               *)
(***************************************************************************)
C8_SkipDepthBound ==
    (phase = "done" /\ rproc = "none" /\ cut = 0 /\ ctx.status = BSERIAL_OK)
        => \A i \in 1..Len(prog) :
               prog[i].k = "record"
                   => \A j \in 1..Len(prog[i].f) :
                          Need(prog[i].f[j].val) <= ctx.config.max_depth - 1

\* The bytes the step appends to the output.
Emitted == SubSeq(ctx'.out.mem, Len(ctx.out.mem) + 1, Len(ctx'.out.mem))

\* The id of a text the writer has interned: its rank of first occurrence.
IdOf(text) == (CHOOSE j \in 1..Len(wdefs) : wdefs[j].text = text) - 1

\* The writer is about to write a name: a symbol value, or the name of a
\* field in the pass that emits the names.
WritesSymbol ==
    /\ Writing /\ ctx.status = BSERIAL_OK
    /\ \/ AtKey /\ WritesName
       \/ AtValue /\ ValNode.k = "symbol"

WrittenText == NameText(IF AtKey THEN KeyName ELSE ValNode.v)

(***************************************************************************)
(* C9.  Symbol dedup: a write of a name that succeeds emits a SymbolDef    *)
(* (marker, length, bytes) when the context has not written that text      *)
(* before, and otherwise only a SymbolRef (marker, id) with the id of the  *)
(* definition, be the name a field of a record, a column of a table or a   *)
(* symbol value.                                                           *)
(***************************************************************************)
C9_SymbolDedup ==
    [][(WritesSymbol /\ ctx'.status = BSERIAL_OK)
           => Emitted = IF WrittenText \in DefTexts
                        THEN <<BSERIAL_SYM_REF, IdOf(WrittenText)>>
                        ELSE <<BSERIAL_SYM_DEF, Len(WrittenText)>>
                                 \o WrittenText]_vars

\* The same text written through two pointers: a definition, then a
\* reference to it.
C9_Witness ==
    /\ prog = <<Y(1), Y(4), Y(3)>>
    /\ op = "symbol" /\ ret = BSERIAL_OK
    /\ ctx.out.mem = <<BSERIAL_SYM_DEF, 1, 97, BSERIAL_SYM_REF, 0>>

\* The reader's table of symbols, by id.
ReaderTable ==
    [j \in 1..ctx.num_symbols |->
        SymText(ctx, ctx.symtab[j].buf, ctx.symtab[j].len)]

\* The writer's table once it had produced the first n bytes of its output.
WriterTableAt(n) ==
    [j \in 1..Cardinality({k \in 1..Len(wdefs) : wdefs[k].end <= n}) |->
        wdefs[j].text]

(***************************************************************************)
(* C10.  The reader's table follows the writer's: as long as its status is *)
(* Ok, the reader's table of symbols is the table the writer had when it   *)
(* had produced the bytes the reader has consumed, whether the reader      *)
(* delivered or skipped the values in them.                                *)
(***************************************************************************)
C10_TablesAgree ==
    (phase \in {"read", "done"} /\ ctx.status = BSERIAL_OK)
        => ReaderTable = WriterTableAt(ctx.in.cur)

(***************************************************************************)
(* A caller that follows no procedure: it calls any public operation in    *)
(* any order, on a writer or on a reader whose input is a byte stream that *)
(* need not come from a writer.  The root frame of its stack counts the    *)
(* calls it made and holds what the last call delivered.                   *)
(***************************************************************************)
MaxCalls == 4          \* calls a procedure-less caller makes of a reader
MaxWrites == 3         \* calls a procedure-less caller makes of a writer
FewSymbols == 1        \* config.max_num_symbols of a small symbol table
FewFields == 1         \* config.max_record_fields of a narrow schema

\* n times the bytes of `item`.
RECURSIVE Rep(_, _)
Rep(n, item) == IF n = 0 THEN << >> ELSE item \o Rep(n - 1, item)

DefA == <<BSERIAL_SYM_DEF, 1, 97>>
DefB == <<BSERIAL_SYM_DEF, 1, 98>>
Ref(id) == <<BSERIAL_SYM_REF, id>>
U7 == <<BSERIAL_UINT, 7>>

\* The byte streams a reader is given.
Wires ==
    { Ref(0),
      DefA \o Ref(0) \o Ref(1),
      DefA \o DefB \o Ref(1) \o Ref(0),
      Rep(MaxSymbols + 1, <<BSERIAL_SYM_DEF, 0>>),
      <<BSERIAL_SYM_DEF, MaxSymLen + 1>> \o Rep(MaxSymLen + 1, <<101>>),
      <<BSERIAL_SYM_DEF, MaxSymLen>> \o Rep(MaxSymLen, <<101>>) \o Ref(0),
      <<BSERIAL_BLOB, 1, 9>> \o U7,
      <<BSERIAL_BLOB, 0>> \o U7,
      <<BSERIAL_ARRAY, 2>> \o U7 \o U7 \o U7,
      <<BSERIAL_ARRAY, 1, BSERIAL_ARRAY, 1>> \o U7 \o U7,
      <<BSERIAL_ARRAY, 0>> \o U7,
      <<BSERIAL_SINT, 1>> \o U7,
      <<BSERIAL_F32, 0, 0, 0, 0>> \o U7,
      <<BSERIAL_RECORD, 1>> \o DefA \o U7 \o U7,
      <<BSERIAL_RECORD, 2>> \o DefA \o Ref(0) \o U7 \o U7,
      <<BSERIAL_RECORD, 2>> \o DefB \o <<BSERIAL_SYM_DEF, 2, 99, 0>> \o U7 \o U7,
      <<BSERIAL_RECORD, MaxFields + 1>> \o Rep(MaxFields + 1, DefA)
          \o Rep(MaxFields + 1, U7),
      <<BSERIAL_TABLE, 2, 1>> \o DefA \o U7 \o U7 \o U7,
      <<BSERIAL_TABLE, 1, MaxFields + 1>> \o Rep(MaxFields + 1, DefA)
          \o Rep(MaxFields + 1, U7),
      <<BSERIAL_TABLE, 0>> \o U7 }

\* The configurations of a procedure-less caller's context.
AnyConfigs ==
    { Config(MaxDepth),
      [Config(MaxDepth) EXCEPT !.max_num_symbols = FewSymbols],
      [Config(MaxDepth) EXCEPT !.max_record_fields = FewFields],
      Config(MaxDepth - 2) }

AnyInit ==
    /\ wconf \in AnyConfigs
    /\ \/ /\ phase = "write"
          /\ ctx = bserial_make_ctx(wconf, NoIn, bserial_mem_init_out(SinkCap))
       \/ /\ phase = "read"
          /\ wconf = Config(MaxDepth)
          /\ \E w \in Wires :
                ctx = bserial_make_ctx(wconf, bserial_mem_init_in(w, TRUE),
                                       NoOut)
    /\ prog = << >>
    /\ stk = <<Root(<< >>)>>
    /\ rproc = "none"
    /\ cut = 0
    /\ op = "make_ctx"
    /\ ret = BSERIAL_OK
    /\ wdefs = << >>

\* The number of calls made so far, the argument of the last one and what
\* it delivered.
Calls == stk[1].i - 1
Arg == prog[1]
Last == stk[1].acc[1]

\* An argument x of the operation `name`.
Passed(name, x) == Node(name, x, << >>, << >>, << >>)

\* The bookkeeping of a call with argument x that gave the context c,
\* returned r and delivered res.
Made(name, x, c, r, res) ==
    /\ Calls < (IF Writing THEN MaxWrites ELSE MaxCalls)
    /\ ctx' = c
    /\ op' = name
    /\ ret' = r
    /\ prog' = <<Passed(name, x)>>
    /\ stk' = <<[stk[1] EXCEPT !.i = @ + 1, !.acc = <<res>>]>>
    /\ UNCHANGED <<phase, rproc, wconf, cut, wdefs>>

\* What a call that returns a status stored into the caller's variable.
Stored(o, k) ==
    IF Reading /\ o.r = BSERIAL_OK THEN Node(k, o.v, << >>, << >>, << >>)
    ELSE Unset

AnyScalarMade(name, x, o) == Made(name, x, o.c, o.r, Stored(o, name))

AnyUint ==
    \E x \in IF Writing THEN {7, 200} ELSE {0} :
        AnyScalarMade("uint", x, bserial_uint(ctx, x))

AnySint ==
    \E x \in IF Writing THEN {-3} ELSE {0} :
        AnyScalarMade("sint", x, bserial_sint(ctx, x))

AnyF32 ==
    \E x \in IF Writing THEN {1065353216} ELSE {0} :
        AnyScalarMade("f32", x, bserial_f32(ctx, x))

AnyF64 ==
    \E x \in IF Writing THEN {258} ELSE {0} :
        AnyScalarMade("f64", x, bserial_f64(ctx, x))

AnyBlobHeader ==
    \E len \in IF Writing THEN {0, 1} ELSE {0} :
        AnyScalarMade("blob_header", len, bserial_blob_header(ctx, len))

AnyBlobBodyMade(o) ==
    Made("blob_body", NULL, o.c, o.r,
         IF Reading /\ o.r = BSERIAL_OK THEN B(o.v) ELSE Unset)

\* The content of the buffer a writer passes to bserial_blob_body.
AnyBlobBuf == <<9>>

AnyBlobBody ==
    AnyBlobBodyMade(bserial_blob_body(ctx, IF Writing THEN AnyBlobBuf
                                           ELSE << >>))

AnySymbolMade(name, o) ==
    Made("symbol", name, o.c, o.r,
         IF o.r = BSERIAL_OK
         THEN Node("symbol", o.buf,
                   IF Writing THEN NameText(o.buf)
                   ELSE SymText(o.c, o.buf, o.len), << >>, << >>)
         ELSE Unset)

AnySymbol ==
    \E name \in IF Writing THEN {1, 2, 3, 4, 5} ELSE {NULL} :
        AnySymbolMade(name,
                      IF Writing
                      THEN bserial_symbol(ctx, name, Len(NameText(name)),
                                          NameText(name))
                      ELSE bserial_symbol(ctx, NULL, 0, << >>))

AnyArray ==
    \E len \in IF Writing THEN {0, 1, 2} ELSE {0} :
        AnyScalarMade("array", len, bserial_array(ctx, len))

AnyTable ==
    \E len \in IF Writing THEN {0, 1, 2} ELSE {0} :
        AnyScalarMade("table", len, bserial_table(ctx, len))

AnyRecordMade(record, o) == Made("record", record, o.c, Bool(o.r), Unset)

AnyRecord ==
    \E depth \in {1, 2} :
        AnyRecordMade(RecordAddr(depth), bserial_record(ctx, RecordAddr(depth)))

AnyKeyMade(name, o) == Made("key", name, o.c, Bool(o.r), Unset)

AnyKey ==
    \E name \in {1, 2, 3}, garbage \in IF Writing THEN {NULL} ELSE Garbage :
        AnyKeyMade(name, bserial_key(ctx, name, Len(NameText(name)), garbage))

AnyNext ==
    \/ AnyUint
    \/ AnySint
    \/ AnyF32
    \/ AnyF64
    \/ AnyBlobHeader
    \/ AnyBlobBody
    \/ AnySymbol
    \/ AnyArray
    \/ AnyTable
    \/ AnyRecord
    \/ AnyKey

AnySpec == AnyInit /\ [][AnyNext]_vars

(***************************************************************************)
(* Symbol references on read.                                              *)
(***************************************************************************)
\* The reader's next two bytes are a SymbolRef marker and its id.
AtSymRef ==
    /\ Reading /\ ctx.status = BSERIAL_OK
    /\ ctx.marker_buf = BSERIAL_NO_MARKER
    /\ ctx.in.cur + 2 <= Len(ctx.in.buf)
    /\ ctx.in.buf[ctx.in.cur + 1] = BSERIAL_SYM_REF

RefId == ctx.in.buf[ctx.in.cur + 2]

\* A scope in which bserial_begin_op admits a symbol.
SymbolAdmitted ==
    Cur(ctx).type \notin {BSERIAL_SCOPE_BLOB, BSERIAL_SCOPE_TABLE}

\* What a call delivers that returns the symbol `e` of the table of c.
SymbolOf(c, e) ==
    Node("symbol", e.buf, SymText(c, e.buf, e.len), << >>, << >>)

\* C11: on read, a SymbolRef whose id is not smaller than the number of
\* symbols defined so far latches Malformed, delivers no text and leaves the
\* symbol table alone; a SymbolRef to a defined id delivers the pointer and
\* the length of that symbol's table entry, which is what the definition
\* delivered when it made the entry, and no later step changes an entry or
\* the text it points to.
C11_SymbolRef ==
    [][ /\ (AtSymRef /\ op' = "symbol" /\ RefId >= ctx.num_symbols)
            => /\ ctx'.status = BSERIAL_MALFORMED
               /\ ret' = BSERIAL_MALFORMED
               /\ Last' = Unset
               /\ ctx'.symtab = ctx.symtab
        /\ (AtSymRef /\ op' = "symbol" /\ RefId < ctx.num_symbols
                /\ SymbolAdmitted)
            => /\ ret' = BSERIAL_OK
               /\ Last' = SymbolOf(ctx, ctx.symtab[RefId + 1])
               /\ ctx'.symtab = ctx.symtab
        /\ (Reading /\ op' = "symbol" /\ ret' = BSERIAL_OK
                /\ ctx'.num_symbols # ctx.num_symbols)
            => /\ ctx'.num_symbols = ctx.num_symbols + 1
               /\ Last' = SymbolOf(ctx', ctx'.symtab[ctx'.num_symbols])
        /\ Reading
            => \A i \in 1..ctx.num_symbols :
                   /\ ctx'.symtab[i] = ctx.symtab[i]
                   /\ SymbolOf(ctx', ctx'.symtab[i]) = SymbolOf(ctx, ctx.symtab[i])
      ]_vars

\* A reference to a defined symbol was read, and then a forward reference.
C11_Witness ==
    /\ Reading /\ op = "symbol" /\ ctx.status = BSERIAL_MALFORMED
    /\ ctx.in.buf = DefA \o Ref(0) \o Ref(1)
    /\ ctx.in.cur = Len(ctx.in.buf)
    /\ ctx.num_symbols = 1

(***************************************************************************)
(* The limits of the symbol table.                                         *)
(***************************************************************************)
\* The texts the symbol table of c holds.
TableTexts(c) ==
    {SymText(c, c.symtab[i].buf, c.symtab[i].len) : i \in 1..c.num_symbols}

\* The table, its index and its string pool.
SymbolState(c) ==
    <<c.num_symbols, c.symtab, c.symtab_index, c.strpool, c.strmem>>

\* The reader's next two bytes are a SymbolDef marker and a length.
AtSymDef ==
    /\ Reading /\ ctx.status = BSERIAL_OK
    /\ ctx.marker_buf = BSERIAL_NO_MARKER
    /\ ctx.in.cur + 2 <= Len(ctx.in.buf)
    /\ ctx.in.buf[ctx.in.cur + 1] = BSERIAL_SYM_DEF

DefLen == ctx.in.buf[ctx.in.cur + 2]

\* The definition the reader is about to read would exceed a limit.
ReadsExcess ==
    /\ AtSymDef
    /\ \/ ctx.num_symbols >= ctx.config.max_num_symbols
       \/ DefLen > ctx.config.max_symbol_len

\* The text the writer was called with is not in the table and would
\* exceed a limit if it were added.
WritesExcess(text) ==
    /\ Writing /\ ctx.status = BSERIAL_OK
    /\ \/ Len(text) > ctx.config.max_symbol_len
       \/ /\ text \notin TableTexts(ctx)
          /\ ctx.num_symbols >= ctx.config.max_num_symbols

\* C12: in every reachable state the table holds at most max_num_symbols
\* symbols, each at most max_symbol_len bytes long, and the string pool
\* holds at most (max_symbol_len + 1) * max_num_symbols bytes; a definition,
\* read or written, that would exceed either limit latches Malformed and
\* leaves the table, its index and the pool as they were.
C12_SymbolLimits ==
    /\ [](/\ ctx.num_symbols <= ctx.config.max_num_symbols
          /\ Len(ctx.symtab) = ctx.num_symbols
          /\ \A i \in 1..ctx.num_symbols :
                 ctx.symtab[i].len <= ctx.config.max_symbol_len
          /\ ctx.strpool <= (ctx.config.max_symbol_len + 1)
                                * ctx.config.max_num_symbols
          /\ Len(ctx.strmem) = ctx.strpool)
    /\ [][ (op' = "symbol"
               /\ (ReadsExcess \/ WritesExcess(NameText(Arg'.v))))
            => /\ ctx'.status = BSERIAL_MALFORMED
               /\ ret' = BSERIAL_MALFORMED
               /\ SymbolState(ctx') = SymbolState(ctx)
               /\ ctx'.out = ctx.out
      ]_vars

\* A writer refused a symbol that did not fit its full table, or a reader
\* refused a definition beyond its table or beyond the length limit.
C12_Witness ==
    /\ op = "symbol" /\ ctx.status = BSERIAL_MALFORMED
    /\ ctx.num_symbols = ctx.config.max_num_symbols
    /\ \/ Writing /\ NameText(Arg.v) \notin TableTexts(ctx)
                  /\ Len(NameText(Arg.v)) <= ctx.config.max_symbol_len
       \/ Reading /\ ctx.in.buf = Rep(MaxSymbols + 1, <<BSERIAL_SYM_DEF, 0>>)
                  /\ ctx.in.cur = 2 * MaxSymbols + 1

(***************************************************************************)
(* The bytes a writer emits for tables and records.                        *)
(***************************************************************************)
\* Concatenation of a sequence of byte sequences.
RECURSIVE Flat(_)
Flat(seqs) == IF seqs = << >> THEN << >> ELSE Head(seqs) \o Flat(Tail(seqs))

\* The bytes of an unsigned integer value and of a first-time symbol.
UintWire(x) == <<BSERIAL_UINT>> \o write_uint_bytes(x)
SymDefWire(text) == <<BSERIAL_SYM_DEF>> \o write_uint_bytes(Len(text)) \o text

\* The names of a record's fields and the bytes of its values, in visit
\* order, the values being unsigned integers.
NamesWire(rec) == Flat([j \in 1..Len(rec.f) |-> SymDefWire(NameText(rec.f[j].name))])
ValuesWire(rec) == Flat([j \in 1..Len(rec.f) |-> UintWire(rec.f[j].val.v)])

\* The program is one table of at least one row, every row with the fields
\* of the first, all of them unsigned integers with distinct names.
OneTable ==
    /\ Len(prog) = 1 /\ prog[1].k = "table" /\ Len(prog[1].e) >= 1
    /\ \A i \in 1..Len(prog[1].e) :
           /\ Len(prog[1].e[i].f) = Len(prog[1].e[1].f)
           /\ \A j \in 1..Len(prog[1].e[i].f) :
                  /\ prog[1].e[i].f[j].name = prog[1].e[1].f[j].name
                  /\ prog[1].e[i].f[j].val.k = "uint"

\* C13: a writer that has written a table of N >= 1 rows of the same C
\* fields has emitted the table marker and N, then the column count C and
\* the C column names once, then the C values of row 1, then nothing but
\* the C values of each later row; no Record marker precedes any row.
C13_TableSchemaOnce ==
    (phase = "written" /\ ctx.status = BSERIAL_OK /\ OneTable)
        => ctx.out.mem =
               <<BSERIAL_TABLE>> \o write_uint_bytes(Len(prog[1].e))
               \o write_uint_bytes(Len(prog[1].e[1].f))
               \o NamesWire(prog[1].e[1])
               \o Flat([i \in 1..Len(prog[1].e) |-> ValuesWire(prog[1].e[i])])

\* A table of two rows of two columns was written.
C13_Witness ==
    /\ phase = "written" /\ ctx.status = BSERIAL_OK /\ OneTable
    /\ Len(prog[1].e) = 2 /\ Len(prog[1].e[1].f) = 2

(***************************************************************************)
(* C14.  Table round trip: a reader over all of a written table of N >= 1  *)
(* rows, with the writer's configuration, whose procedure visits the       *)
(* written column names in the writer's order in the first row and in the  *)
(* same or in the reverse order in later rows, ends with status Ok and     *)
(* holds N rows with the values written, column by column.                 *)
(***************************************************************************)
C14_TableRoundTrip ==
    (phase = "done" /\ OneTable /\ rproc \in {"same", "swap"} /\ SameSetup)
        => (ctx.status = BSERIAL_OK /\ AllMatch)

\* The same for a procedure that visits the columns in the writer's order
\* in every row.
C14_SameOrder ==
    (phase = "done" /\ OneTable /\ rproc = "same" /\ SameSetup)
        => (ctx.status = BSERIAL_OK /\ AllMatch)

\* A value without names: a scalar, a blob or an array of such values.
RECURSIVE Plain(_)
Plain(v) ==
    \/ v.k \in {"uint", "sint", "f32", "f64", "blob"}
    \/ v.k = "array" /\ \A j \in 1..Len(v.e) : Plain(v.e[j])

\* The bytes of a plain value.
RECURSIVE PlainWire(_)
PlainWire(v) ==
    IF v.k = "uint" THEN UintWire(v.v)
    ELSE IF v.k = "sint" THEN <<BSERIAL_SINT>> \o write_uint_bytes(zigzag(v.v))
    ELSE IF v.k = "f32" THEN <<BSERIAL_F32>> \o le_bytes(v.v, 4)
    ELSE IF v.k = "f64" THEN <<BSERIAL_F64>> \o le_bytes(v.v, 8)
    ELSE IF v.k = "blob"
    THEN <<BSERIAL_BLOB>> \o write_uint_bytes(Len(v.b)) \o v.b
    ELSE <<BSERIAL_ARRAY>> \o write_uint_bytes(Len(v.e))
         \o Flat([j \in 1..Len(v.e) |-> PlainWire(v.e[j])])

\* The program is one record whose fields have distinct names and plain
\* values.
OneRecord ==
    /\ Len(prog) = 1 /\ prog[1].k = "record"
    /\ \A i \in 1..Len(prog[1].f) :
           /\ Plain(prog[1].f[i].val)
           /\ \A j \in 1..Len(prog[1].f) :
                  NameText(prog[1].f[i].name) = NameText(prog[1].f[j].name)
                      => i = j

\* C15: a writer that has written a record outside a table has emitted the
\* marker 10, the field count, that many symbols (the field names in visit
\* order) and then that many values in the same order.
C15_RecordLayout ==
    (phase = "written" /\ ctx.status = BSERIAL_OK /\ OneRecord)
        => ctx.out.mem =
               <<BSERIAL_RECORD>> \o write_uint_bytes(Len(prog[1].f))
               \o NamesWire(prog[1])
               \o Flat([j \in 1..Len(prog[1].f) |-> PlainWire(prog[1].f[j].val)])

\* A record of an unsigned integer and an array was written.
C15_Witness ==
    /\ phase = "written" /\ ctx.status = BSERIAL_OK /\ OneRecord
    /\ Len(prog[1].f) = 2
    /\ prog[1].f[1].val.k = "uint"
    /\ prog[1].f[2].val.k = "array" /\ Len(prog[1].f[2].val.e) = 2

(***************************************************************************)
(* Arrays and tables close themselves.                                     *)
(***************************************************************************)
\* The arrays and tables the engine holds open, outermost first, each with
\* its length.
OpenScopes ==
    LET open == SelectSeq(ctx.scopes,
                    LAMBDA s : s.type \in {BSERIAL_SCOPE_ARRAY, BSERIAL_SCOPE_TABLE})
    IN  [j \in 1..Len(open) |->
            [k |-> IF open[j].type = BSERIAL_SCOPE_ARRAY THEN "array" ELSE "table",
             n |-> open[j].len]]

\* The arrays and tables of which the caller has not yet completed the last
\* element, outermost first, each with its length.
OpenFrames ==
    LET open == SelectSeq(stk, LAMBDA fr : fr.k \in {"array", "table"})
    IN  [j \in 1..Len(open) |-> [k |-> open[j].k, n |-> Len(open[j].items)]]

\* The elements of every open array or table that were begun: those the
\* caller completed, and the one it is inside of.
BegunElements ==
    LET open == SelectSeq(ctx.scopes,
                    LAMBDA s : s.type \in {BSERIAL_SCOPE_ARRAY, BSERIAL_SCOPE_TABLE})
    IN  \A j \in 1..Len(open) :
            open[j].iterator >= 0 /\ open[j].iterator <= open[j].len

\* C16: as long as the status is Ok, the arrays and tables the engine holds
\* open are exactly those of which the caller has not completed the last
\* element: a scope of length n is popped by the operation that completes
\* its n-th element (by bserial_array or bserial_table itself when n = 0),
\* together with every enclosing array or table whose last element that
\* was, and by no earlier operation.
C16_AutoClose ==
    (Active /\ ctx.status = BSERIAL_OK)
        => (OpenScopes = OpenFrames /\ BegunElements)

\* The last element of an array that is itself the last element of an
\* array was completed, and both are closed.
C16_Witness ==
    /\ Active /\ ctx.status = BSERIAL_OK
    /\ prog = <<A(<<A(<<U(7)>>)>>), U(7)>>
    /\ op = "uint" /\ Len(stk) = 1 /\ stk[1].i = 2
    /\ Len(ctx.scopes) = 1

(***************************************************************************)
(* Blob scopes.                                                            *)
(***************************************************************************)
\* The innermost scope is a blob whose body was not transferred.
InBlob == Active /\ ctx.status = BSERIAL_OK /\ Cur(ctx).type = BSERIAL_SCOPE_BLOB

\* The blob scope, and the arrays it completed, are gone from the stack.
BlobPopped ==
    /\ Len(ctx'.scopes) < Len(ctx.scopes)
    /\ ctx'.scopes = SubSeq(ctx.scopes, 1, Len(ctx'.scopes))

\* bserial_blob_body moved exactly the declared length.
BodyTransferred ==
    IF Writing
    THEN IF Len(ctx.out.mem) + Cur(ctx).len <= ctx.out.cap
         THEN /\ ret' = BSERIAL_OK /\ BlobPopped
              /\ ctx'.out.mem = ctx.out.mem \o SubSeq(AnyBlobBuf, 1, Cur(ctx).len)
         ELSE ctx'.status = BSERIAL_IO_ERROR /\ ctx'.out.mem = ctx.out.mem
    ELSE IF ctx.in.cur + Cur(ctx).len <= Len(ctx.in.buf)
         THEN /\ ret' = BSERIAL_OK /\ BlobPopped
              /\ ctx'.in.cur = ctx.in.cur + Cur(ctx).len
              /\ Last' = B(SubSeq(ctx.in.buf, ctx.in.cur + 1,
                                  ctx.in.cur + Cur(ctx).len))
         ELSE ctx'.status = BSERIAL_IO_ERROR /\ ctx'.in.cur = ctx.in.cur

\* C17: while the innermost scope is a blob whose body was not transferred,
\* every operation but bserial_blob_body latches Malformed and moves no
\* byte; bserial_blob_body moves exactly the declared length and pops the
\* blob scope.
C17_BlobScope ==
    [][ InBlob =>
            IF op' = "blob_body" THEN BodyTransferred
            ELSE /\ ctx'.status = BSERIAL_MALFORMED
                 /\ ctx'.in = ctx.in /\ ctx'.out = ctx.out
                 /\ ctx'.scopes = ctx.scopes
      ]_vars

\* bserial_record was called between a blob header and the blob's body.
C17_Witness ==
    /\ Active /\ ctx.status = BSERIAL_MALFORMED
    /\ Cur(ctx).type = BSERIAL_SCOPE_BLOB
    /\ op = "record" /\ Calls = 2

(***************************************************************************)
(* The limit on the fields of a record.                                    *)
(***************************************************************************)
\* The reader is about to begin a record, or the first row of a table,
\* whose field count on the wire exceeds max_record_fields.
AtWideRecord ==
    /\ Reading /\ ctx.status = BSERIAL_OK
    /\ ctx.marker_buf = BSERIAL_NO_MARKER
    /\ \/ /\ Cur(ctx).type = BSERIAL_SCOPE_TABLE /\ Cur(ctx).iterator = 0
          /\ ctx.in.cur + 1 <= Len(ctx.in.buf)
          /\ ctx.in.buf[ctx.in.cur + 1] > ctx.config.max_record_fields
       \/ /\ Cur(ctx).type \in {BSERIAL_SCOPE_ROOT, BSERIAL_SCOPE_ARRAY}
          /\ ctx.in.cur + 2 <= Len(ctx.in.buf)
          /\ ctx.in.buf[ctx.in.cur + 1] = BSERIAL_RECORD
          /\ ctx.in.buf[ctx.in.cur + 2] > ctx.config.max_record_fields

\* The keys a writer counted for the records it has open.
CountedKeys ==
    {ctx.scopes[j].len : j \in {i \in 1..Len(ctx.scopes) :
                                  ctx.scopes[i].type = BSERIAL_SCOPE_RECORD}}

\* The read half of C18.
C18_ReadLimit ==
    [][ (AtWideRecord /\ op' = "record")
            => /\ ctx'.status = BSERIAL_MALFORMED
               /\ ret' = "false"
               /\ ctx'.schema = ctx.schema
      ]_vars

\* C18: a reader that begins a record or a table whose field count on the
\* wire exceeds max_record_fields latches Malformed and stores no schema
\* entry; and no writer whose status is Ok has counted more than
\* max_record_fields keys for a record.
C18_FieldLimit ==
    /\ C18_ReadLimit
    /\ []((Writing /\ ctx.status = BSERIAL_OK)
            => \A n \in CountedKeys : n <= ctx.config.max_record_fields)

(***************************************************************************)
(* The varint and zig-zag codec at its full width.  A 64 bit integer is a  *)
(* sequence of 8 bytes, least significant first, as in the symbol hash; a  *)
(* signed one is its two's complement pattern.                             *)
(***************************************************************************)
RECURSIVE or_bits(_, _, _)
or_bits(x, y, n) ==
    IF n = 0 THEN 0
    ELSE (IF x % 2 = 1 \/ y % 2 = 1 THEN 1 ELSE 0)
         + 2 * or_bits(x \div 2, y \div 2, n - 1)

u64_or(a, b) == [i \in 1..8 |-> or_bits(a[i], b[i], 8)]

u64_not(a) == [i \in 1..8 |-> 255 - a[i]]

\* a << n for 0 <= n < 64, the bits shifted out of the 64 dropped
u64_shl(a, n) ==
    LET q == n \div 8
        r == n % 8
        limb(i) == IF i >= 1 THEN a[i] ELSE 0
    IN  [i \in 1..8 |->
            ((limb(i - q) * (2 ^ r)) % 256) + (limb(i - q - 1) \div (2 ^ (8 - r)))]

\* (uint64_t)b for a byte b
u64_of_byte(b) == <<b, 0, 0, 0, 0, 0, 0, 0>>

\* x >= 0x80
u64_ge_0x80(x) == x[1] >= 128 \/ \E i \in 2..8 : x[i] # 0

\* The loop of bserial_write_uint and the flip of the last byte: the bytes
\* handed to bserial_write.
RECURSIVE write_u64_loop(_, _, _, _)
write_u64_loop(x, i, n, buf) ==
    IF i = 10
    THEN SubSeq([buf EXCEPT ![n + 1] = xor_bits(buf[n + 1], 128, 8)], 1, n + 1)
    ELSE write_u64_loop(u64_shr(x, 7), i + 1,
                        IF u64_ge_0x80(x) THEN n + 1 ELSE n,
                        Append(buf, or_bits(x[1], 128, 8)))

write_u64_bytes(x) == write_u64_loop(x, 0, 0, << >>)

\* A group shifted as a 32 bit integer: the bits from 32 up are lost.
read_u64_group_narrow(b, i) ==
    LET wide == u64_shl(u64_of_byte(b % 128), 7 * i)
    IN  [j \in 1..8 |-> IF j <= 4 THEN wide[j] ELSE 0]

\* (b & 0x7f) << (7 * i)
read_u64_group(b, i) == u64_shl(u64_of_byte(b % 128), 7 * i)

\* A loop bound that admits an eleventh byte.
varint_exhausted_late(i) == i = 11

\* for (int i = 0; i < 10; ++i): the loop is left after the tenth byte
varint_exhausted(i) == i = 10

\* The loop of bserial_read_uint.
RECURSIVE read_u64_loop(_, _, _)
read_u64_loop(in, i, tmp) ==
    IF varint_exhausted(i) THEN [in |-> in, r |-> BSERIAL_MALFORMED, x |-> << >>]
    ELSE LET rd == bserial_read(in, 1)
         IN  IF rd.r # BSERIAL_OK THEN [in |-> rd.in, r |-> rd.r, x |-> << >>]
             ELSE IF rd.b[1] < 128
             THEN [in |-> rd.in, r |-> BSERIAL_OK,
                   x |-> u64_or(tmp, read_u64_group(rd.b[1], i))]
             ELSE read_u64_loop(rd.in, i + 1,
                                u64_or(tmp, read_u64_group(rd.b[1], i)))

U64_ZERO == <<0, 0, 0, 0, 0, 0, 0, 0>>

read_u64(in) == read_u64_loop(in, 0, U64_ZERO)

\* x < 0 for the int64_t of pattern x
i64_negative(x) == x[8] >= 128

\* A zig-zag that leaves negative numbers as they are shifted.
zigzag64_unflipped(x) == u64_shl(x, 1)

\* bserial_write_sint: ux = (uint64_t)x << 1; if (x < 0) ux = ~ux
zigzag64(x) == IF i64_negative(x) THEN u64_not(u64_shl(x, 1)) ELSE u64_shl(x, 1)

\* bserial_read_sint: tmp = (int64_t)(ux >> 1); if (ux & 1) tmp = ~tmp
unzigzag64(ux) ==
    IF ux[1] % 2 # 0 THEN u64_not(u64_shr(ux, 1)) ELSE u64_shr(ux, 1)

write_i64_bytes(x) == write_u64_bytes(zigzag64(x))

read_i64(in) ==
    LET rd == read_u64(in)
    IN  IF rd.r # BSERIAL_OK THEN rd
        ELSE [in |-> rd.in, r |-> BSERIAL_OK, x |-> unzigzag64(rd.x)]

(***************************************************************************)
(* A caller of the codec alone: it writes one 64 bit integer to a sink and *)
(* reads it back from the bytes the sink holds.                            *)
(***************************************************************************)
U64_BITS == 64

\* 2^k and 2^k - 1 as 64 bit patterns.
Pow2(k) == [i \in 1..8 |-> IF i - 1 = k \div 8 THEN 2 ^ (k % 8) ELSE 0]
Ones(k) ==
    [i \in 1..8 |-> IF i - 1 < k \div 8 THEN 255
                    ELSE IF i - 1 = k \div 8 THEN 2 ^ (k % 8) - 1 ELSE 0]

\* The integers the codec is applied to: the powers of two, their
\* predecessors, two mixed patterns, and the complements of all of them.
Patterns ==
    LET base == {Pow2(k) : k \in 0..(U64_BITS - 1)}
                \cup {Ones(k) : k \in 0..U64_BITS}
                \cup { <<170, 170, 170, 170, 170, 170, 170, 170>>,
                       <<44, 1, 0, 0, 0, 0, 0, 0>> }
    IN  base \cup {u64_not(p) : p \in base}

Int64(x) == Node("sint", 0, x, << >>, << >>)
Uint64(x) == Node("uint", 0, x, << >>, << >>)

CodecInit ==
    /\ \E x \in Patterns : prog \in {<<Uint64(x)>>, <<Int64(x)>>}
    /\ wconf = Config(MaxDepth)
    /\ ctx = bserial_make_ctx(wconf, NoIn, bserial_mem_init_out(SinkCap))
    /\ phase = "write"
    /\ stk = <<Root(prog)>>
    /\ rproc = "none"
    /\ cut = 0
    /\ op = "make_ctx"
    /\ ret = BSERIAL_OK
    /\ wdefs = << >>

\* The integer the caller writes and the one it read back.
Written == prog[1].b
ReadBack == stk[1].acc[1].b

CodecWrote(name, wr) ==
    /\ ctx' = [ctx EXCEPT !.out = wr.out]
    /\ op' = name
    /\ ret' = wr.r
    /\ phase' = "written"
    /\ UNCHANGED <<prog, stk, rproc, wconf, cut, wdefs>>

WriteUint64 ==
    /\ phase = "write" /\ prog[1].k = "uint"
    /\ CodecWrote("write_uint", bserial_write(ctx.out, write_u64_bytes(Written)))

WriteSint64 ==
    /\ phase = "write" /\ prog[1].k = "sint"
    /\ CodecWrote("write_sint", bserial_write(ctx.out, write_i64_bytes(Written)))

CodecRead(name, rd) ==
    /\ ctx' = bserial_make_ctx(wconf, rd.in, NoOut)
    /\ op' = name
    /\ ret' = rd.r
    /\ phase' = "done"
    /\ stk' = <<[stk[1] EXCEPT !.i = 2,
                               !.acc = <<Node(prog[1].k, 0, rd.x, << >>, << >>)>>]>>
    /\ UNCHANGED <<prog, rproc, wconf, cut, wdefs>>

ReadUint64 ==
    /\ phase = "written" /\ prog[1].k = "uint"
    /\ CodecRead("read_uint", read_u64(bserial_mem_init_in(ctx.out.mem, TRUE)))

ReadSint64 ==
    /\ phase = "written" /\ prog[1].k = "sint"
    /\ CodecRead("read_sint", read_i64(bserial_mem_init_in(ctx.out.mem, TRUE)))

CodecNext ==
    \/ WriteUint64
    \/ WriteSint64
    \/ ReadUint64
    \/ ReadSint64

CodecSpec == CodecInit /\ [][CodecNext]_vars

(***************************************************************************)
(* Properties of the codec.                                                *)
(***************************************************************************)
\* The bytes the codec's caller wrote.
Wire == IF phase = "done" THEN ctx.in.buf ELSE ctx.out.mem

\* The number of bits of a 64 bit pattern up to its highest one.
BitLen(x) ==
    IF x = U64_ZERO THEN 0
    ELSE LET h == CHOOSE i \in 1..8 : x[i] # 0 /\ \A j \in (i + 1)..8 : x[j] = 0
         IN  8 * (h - 1) + (CHOOSE n \in 1..8 : 2 ^ (n - 1) <= x[h] /\ x[h] < 2 ^ n)

\* The least number of 7 bit groups that hold x.
Groups(x) == IF BitLen(x) <= 7 THEN 1 ELSE (BitLen(x) + 6) \div 7

\* A pattern below 2^31, and its value.
Small(x) == x[4] < 128 /\ \A i \in 5..8 : x[i] = 0
IntOf(x) == x[1] + 256 * x[2] + 65536 * x[3] + 16777216 * x[4]

\* C19: the varint of an unsigned 64 bit integer u has the least number of
\* 7 bit groups that hold u (one byte for u < 128, never more than ten),
\* the high bit set on every byte but the last, and reads back as u with
\* every byte consumed; below 2^31 the bytes are those the operations on
\* model integers write and read.
C19_VarintRoundTrip ==
    (phase # "write" /\ prog[1].k = "uint")
        => /\ Len(Wire) = Groups(Written) /\ Len(Wire) <= 10
           /\ \A i \in 1..Len(Wire) : (Wire[i] >= 128) <=> (i < Len(Wire))
           /\ phase = "done"
                  => /\ ret = BSERIAL_OK
                     /\ ReadBack = Written
                     /\ ctx.in.cur = Len(ctx.in.buf)
           /\ Small(Written)
                  => /\ Wire = write_uint_bytes(IntOf(Written))
                     /\ bserial_read_uint(bserial_mem_init_in(Wire, TRUE)).x
                            = IntOf(Written)

\* 2^64 - 1 was written in ten bytes and read back.
C19_Witness ==
    /\ phase = "done" /\ prog[1].k = "uint"
    /\ Written = Ones(U64_BITS) /\ ReadBack = Written
    /\ Len(Wire) = 10

\* A signed pattern of magnitude at most 2^29, and its value.
SmallSigned(x) ==
    LET m == IF i64_negative(x) THEN u64_not(x) ELSE x
    IN  m[4] < 32 /\ \A i \in 5..8 : m[i] = 0
SIntOf(x) == IF i64_negative(x) THEN -IntOf(u64_not(x)) - 1 ELSE IntOf(x)

\* C20: the zig-zag mapping and its inverse undo each other in both
\* directions on 64 bit patterns, so the mapping is a bijection between
\* int64 and uint64; a signed integer written by bserial_write_sint reads
\* back as itself, INT64_MIN and -1 included; and an integer v of small
\* magnitude maps to the small unsigned 2v, or to 2|v| - 1 when negative,
\* as the operations on model integers do.
C20_ZigZag ==
    (phase # "write" /\ prog[1].k = "sint")
        => /\ unzigzag64(zigzag64(Written)) = Written
           /\ zigzag64(unzigzag64(Written)) = Written
           /\ Wire = write_u64_bytes(zigzag64(Written))
           /\ phase = "done"
                  => /\ ret = BSERIAL_OK
                     /\ ReadBack = Written
                     /\ ctx.in.cur = Len(ctx.in.buf)
           /\ SmallSigned(Written)
                  => /\ IntOf(zigzag64(Written))
                            = IF SIntOf(Written) < 0
                              THEN 2 * (-SIntOf(Written)) - 1
                              ELSE 2 * SIntOf(Written)
                     /\ zigzag(SIntOf(Written)) = IntOf(zigzag64(Written))
                     /\ unzigzag(IntOf(zigzag64(Written))) = SIntOf(Written)

\* INT64_MIN was written, as the varint of 2^64 - 1, and read back.
C20_Witness ==
    /\ phase = "done" /\ prog[1].k = "sint"
    /\ Written = Pow2(U64_BITS - 1) /\ ReadBack = Written
    /\ zigzag64(Written) = Ones(U64_BITS)

(***************************************************************************)
(* A caller of the decoder alone: it hands bserial_read_uint or            *)
(* bserial_read_sint a stream of bytes it did not write, and a destination *)
(* that already holds a value.                                             *)
(***************************************************************************)
MaxRun == 11

\* Streams of a run of bytes with the continuation bit, then an end: none,
\* a terminating byte, or a terminating byte and one more byte.
Ends == { << >>, <<0>>, <<127>>, <<1, 5>> }
Streams ==
    { Rep(n, <<b>>) \o e : n \in 0..MaxRun, b \in {128, 129, 255}, e \in Ends }

\* What the destination holds before the call.
Held == Ones(U64_BITS)

DecodeInit ==
    /\ wconf = Config(MaxDepth)
    /\ \E s \in Streams :
          ctx = bserial_make_ctx(wconf, bserial_mem_init_in(s, TRUE), NoOut)
    /\ prog \in {<<Uint64(Held)>>, <<Int64(Held)>>}
    /\ phase = "wire"
    /\ stk = <<[Root(prog) EXCEPT !.acc = prog]>>
    /\ rproc = "none"
    /\ cut = 0
    /\ op = "make_ctx"
    /\ ret = BSERIAL_OK
    /\ wdefs = << >>

\* The call returned rd: *x is assigned only when rd carries a value.
Decoded(name, rd) ==
    /\ ctx' = [ctx EXCEPT !.in = rd.in]
    /\ op' = name
    /\ ret' = rd.r
    /\ phase' = "decoded"
    /\ stk' = <<[stk[1] EXCEPT
                   !.i = 2,
                   !.acc = IF rd.r = BSERIAL_OK
                           THEN <<Node(prog[1].k, 0, rd.x, << >>, << >>)>>
                           ELSE stk[1].acc]>>
    /\ UNCHANGED <<prog, rproc, wconf, cut, wdefs>>

DecodeUint ==
    /\ phase = "wire" /\ prog[1].k = "uint"
    /\ Decoded("read_uint", read_u64(ctx.in))

DecodeSint ==
    /\ phase = "wire" /\ prog[1].k = "sint"
    /\ Decoded("read_sint", read_i64(ctx.in))

DecodeNext ==
    \/ DecodeUint
    \/ DecodeSint

DecodeSpec == DecodeInit /\ [][DecodeNext]_vars

\* The bytes of the stream, how many of them the decoder consumed, and the
\* place of the first byte without the continuation bit (0 when none).
Given == ctx.in.buf
Consumed == ctx.in.cur
Terminator ==
    IF \E i \in 1..Len(Given) : Given[i] < 128
    THEN CHOOSE i \in 1..Len(Given) :
            Given[i] < 128 /\ \A j \in 1..(i - 1) : Given[j] >= 128
    ELSE 0

\* C21: bserial_read_uint never consumes more than 10 bytes; when the
\* first 10 bytes all carry the continuation bit it returns Malformed and
\* the destination keeps what it held; when the stream ends before a
\* terminating byte it returns IoError; otherwise it returns Ok having
\* consumed the bytes up to and including the terminating byte.
C21_VarintBound ==
    (phase = "decoded" /\ op = "read_uint")
        => /\ Consumed <= 10
           /\ (Len(Given) >= 10 /\ \A i \in 1..10 : Given[i] >= 128)
                  => /\ ret = BSERIAL_MALFORMED
                     /\ ReadBack = Held
           /\ (Len(Given) < 10 /\ Terminator = 0)
                  => /\ ret = BSERIAL_IO_ERROR
                     /\ ReadBack = Held
           /\ (Terminator \in 1..10)
                  => /\ ret = BSERIAL_OK
                     /\ Consumed = Terminator

\* Ten continuation bytes followed by a terminating byte were refused after
\* the tenth byte.
C21_Witness ==
    /\ phase = "decoded" /\ op = "read_uint"
    /\ Len(Given) = 11 /\ Terminator = 11
    /\ ret = BSERIAL_MALFORMED /\ Consumed = 10 /\ ReadBack = Held

\* A stream that ended inside a varint.
C21_Truncated ==
    /\ phase = "decoded" /\ op = "read_uint"
    /\ Len(Given) = 3 /\ Terminator = 0
    /\ ret = BSERIAL_IO_ERROR

(***************************************************************************)
(* The numeric operations at full width, and the adapters for the narrower *)
(* integer types.  A narrow integer is held as the 64 bit pattern of its   *)
(* widened value.                                                          *)
(***************************************************************************)
\* a <= b for uint64_t
u64_le(a, b) ==
    \/ a = b
    \/ \E i \in 1..8 : a[i] < b[i] /\ \A j \in (i + 1)..8 : a[j] = b[j]

\* a <= b for int64_t
i64_le(a, b) ==
    IF i64_negative(a) # i64_negative(b) THEN i64_negative(a) ELSE u64_le(a, b)

\* bserial_uint and bserial_sint on 64 bit patterns
bserial_uint_u64(c, value) ==
    numeric_op(c, value, BSERIAL_UINT, read_u64, write_u64_bytes(value))

bserial_sint_i64(c, value) ==
    numeric_op(c, value, BSERIAL_SINT, read_i64, write_i64_bytes(value))

INT8_MAX == Ones(7)
INT8_MIN == u64_not(INT8_MAX)
INT16_MAX == Ones(15)
INT16_MIN == u64_not(INT16_MAX)
INT32_MAX == Ones(31)
INT32_MIN == u64_not(INT32_MAX)
UINT8_MAX == Ones(8)
UINT16_MAX == Ones(16)
UINT32_MAX == Ones(32)

\* A bound check that admits everything.
sint_unchecked(i64, lo, hi) == TRUE

\* (int64_t)MIN <= i64 && i64 <= (int64_t)MAX
sint_in_range(i64, lo, hi) == i64_le(lo, i64) /\ i64_le(i64, hi)

\* u64 <= (uint64_t)MAX
uint_in_range(u64, hi) == u64_le(u64, hi)

\* The adapter after its 64 bit operation returned o: the narrow destination
\* `held` is assigned only when the value passed the check.
narrowed(o, held, ok) ==
    IF o.r # BSERIAL_OK THEN [c |-> o.c, r |-> o.r, v |-> held]
    ELSE IF ok THEN [c |-> o.c, r |-> BSERIAL_OK, v |-> o.v]
    ELSE [c |-> bserial_malformed(o.c).c, r |-> BSERIAL_MALFORMED, v |-> held]

narrow_sint(o, held, lo, hi) == narrowed(o, held, sint_in_range(o.v, lo, hi))
narrow_uint(o, held, hi) == narrowed(o, held, uint_in_range(o.v, hi))

bserial_i8(c, i8) == narrow_sint(bserial_sint_i64(c, i8), i8, INT8_MIN, INT8_MAX)
bserial_i16(c, i16) ==
    narrow_sint(bserial_sint_i64(c, i16), i16, INT16_MIN, INT16_MAX)
bserial_i32(c, i32) ==
    narrow_sint(bserial_sint_i64(c, i32), i32, INT32_MIN, INT32_MAX)
bserial_u8(c, u8) == narrow_uint(bserial_uint_u64(c, u8), u8, UINT8_MAX)
bserial_u16(c, u16) == narrow_uint(bserial_uint_u64(c, u16), u16, UINT16_MAX)
bserial_u32(c, u32) == narrow_uint(bserial_uint_u64(c, u32), u32, UINT32_MAX)

(***************************************************************************)
(* A caller of the adapters: a writer that holds a value of the narrow     *)
(* type, or a reader whose destination holds 5 and whose stream holds one  *)
(* integer of any magnitude.                                               *)
(***************************************************************************)
Five == u64_of_byte(5)

\* The values a narrow variable of `bits` bits can hold.
FitsSigned(x, bits) ==
    BitLen(IF i64_negative(x) THEN u64_not(x) ELSE x) <= bits - 1
FitsUnsigned(x, bits) == BitLen(x) <= bits

NarrowInit ==
    /\ wconf = Config(MaxDepth)
    /\ \E x \in Patterns :
          /\ prog \in {<<Uint64(x)>>, <<Int64(x)>>}
          /\ \/ /\ phase = "write"
                /\ ctx = bserial_make_ctx(wconf, NoIn, bserial_mem_init_out(SinkCap))
                /\ stk = <<[Root(prog) EXCEPT !.acc = prog]>>
             \/ /\ phase = "wire"
                /\ ctx = bserial_make_ctx(wconf,
                            bserial_mem_init_in(
                                IF prog[1].k = "uint"
                                THEN <<BSERIAL_UINT>> \o write_u64_bytes(x)
                                ELSE <<BSERIAL_SINT>> \o write_i64_bytes(x),
                                TRUE),
                            NoOut)
                /\ stk = <<[Root(prog) EXCEPT
                              !.acc = <<Node(prog[1].k, 0, Five, << >>, << >>)>>]>>
    /\ rproc = "none"
    /\ cut = 0
    /\ op = "make_ctx"
    /\ ret = BSERIAL_OK
    /\ wdefs = << >>

\* What the narrow variable holds.
NarrowVar == stk[1].acc[1].b

NarrowMade(name, o) ==
    /\ ctx' = o.c
    /\ op' = name
    /\ ret' = o.r
    /\ phase' = IF phase = "write" THEN "written" ELSE "done"
    /\ stk' = <<[stk[1] EXCEPT
                   !.i = 2,
                   !.acc = <<Node(prog[1].k, 0, o.v, << >>, << >>)>>]>>
    /\ UNCHANGED <<prog, rproc, wconf, cut, wdefs>>

\* A writer calls an adapter only with a variable of the adapter's type.
NarrowCall(k, fits) ==
    /\ phase \in {"write", "wire"}
    /\ phase = "write" => (prog[1].k = k /\ fits)

I8 == /\ NarrowCall("sint", FitsSigned(NarrowVar, 8))
      /\ NarrowMade("i8", bserial_i8(ctx, NarrowVar))
I16 == /\ NarrowCall("sint", FitsSigned(NarrowVar, 16))
       /\ NarrowMade("i16", bserial_i16(ctx, NarrowVar))
I32 == /\ NarrowCall("sint", FitsSigned(NarrowVar, 32))
       /\ NarrowMade("i32", bserial_i32(ctx, NarrowVar))
U8 == /\ NarrowCall("uint", FitsUnsigned(NarrowVar, 8))
      /\ NarrowMade("u8", bserial_u8(ctx, NarrowVar))
U16 == /\ NarrowCall("uint", FitsUnsigned(NarrowVar, 16))
       /\ NarrowMade("u16", bserial_u16(ctx, NarrowVar))
U32 == /\ NarrowCall("uint", FitsUnsigned(NarrowVar, 32))
       /\ NarrowMade("u32", bserial_u32(ctx, NarrowVar))

NarrowNext ==
    \/ I8
    \/ I16
    \/ I32
    \/ U8
    \/ U16
    \/ U32

NarrowSpec == NarrowInit /\ [][NarrowNext]_vars

\* The width and signedness of the adapter that was called.
NarrowBits == CASE op \in {"i8", "u8"} -> 8
                [] op \in {"i16", "u16"} -> 16
                [] OTHER -> 32
NarrowSigned == op \in {"i8", "i16", "i32"}
NarrowKind == IF NarrowSigned THEN "sint" ELSE "uint"
NarrowFits(x) ==
    IF NarrowSigned THEN FitsSigned(x, NarrowBits) ELSE FitsUnsigned(x, NarrowBits)

\* The bytes the 64 bit operation writes for x to a fresh sink.
WideBytes(x) ==
    LET c == bserial_make_ctx(wconf, NoIn, bserial_mem_init_out(SinkCap))
    IN  IF NarrowSigned THEN bserial_sint_i64(c, x).c.out.mem
                        ELSE bserial_uint_u64(c, x).c.out.mem

\* C22: read through a narrow adapter, a wire integer of the adapter's
\* signedness that the target type cannot hold latches Malformed and leaves
\* the destination as it was, and one the type can hold is stored exactly
\* with Ok; written through a narrow adapter, a value leaves the bytes the
\* 64 bit operation writes for the widened value.
C22_NarrowAdapters ==
    /\ (phase = "done" /\ prog[1].k = NarrowKind)
          => IF NarrowFits(Written)
             THEN ret = BSERIAL_OK /\ ctx.status = BSERIAL_OK
                  /\ NarrowVar = Written
             ELSE ret = BSERIAL_MALFORMED /\ ctx.status = BSERIAL_MALFORMED
                  /\ NarrowVar = Five
    /\ phase = "written"
          => /\ ret = BSERIAL_OK
             /\ NarrowVar = Written
             /\ ctx.out.mem = WideBytes(Written)
             /\ Len(ctx.out.mem) > 1

\* bserial_i8 refused -129 and bserial_u32 refused 2^32.
C22_Witness ==
    /\ phase = "done" /\ ret = BSERIAL_MALFORMED /\ NarrowVar = Five
    /\ \/ op = "i8" /\ prog[1].k = "sint" /\ Written = u64_not(Pow2(7))
       \/ op = "u32" /\ prog[1].k = "uint" /\ Written = Pow2(32)

\* bserial_i8 stored -128, and bserial_i32 wrote INT32_MIN.
C22_Stored ==
    \/ /\ phase = "done" /\ op = "i8" /\ ret = BSERIAL_OK
       /\ Written = u64_not(Ones(7)) /\ NarrowVar = Written
    \/ /\ phase = "written" /\ op = "i32" /\ Written = u64_not(Ones(31))

(***************************************************************************)
(* The pointer bserial_symbol leaves in *buf.                              *)
(***************************************************************************)
\* The last call was a bserial_symbol that returned Ok.
SymbolDone == op = "symbol" /\ ret = BSERIAL_OK

\* The pointer and the text the call left with its caller.
SymbolPtr == Last.v
SymbolText == Last.b

\* p is the pointer of the entry of the symbol table that holds `text`.
InternalCopy(c, p, text) ==
    \E i \in 1..c.num_symbols :
        /\ c.symtab[i].buf = p
        /\ c.symtab[i].len = Len(text)
        /\ SymText(c, p, Len(text)) = text

\* Two calls in a row returned Ok for the same text, and the table holds
\* no text twice (no writer defines a text twice), so that the two are
\* occurrences of one symbol.
SameSymbolAgain ==
    /\ SymbolDone /\ SymbolDone'
    /\ SymbolText' = SymbolText
    /\ Cardinality(TableTexts(ctx')) = ctx'.num_symbols

\* C23 (read): after a bserial_symbol that succeeds on read, *buf is the
\* pointer of the table entry that holds the text and *len its length, and
\* a second occurrence of the same symbol yields the same pointer.
C23_ReadPointer ==
    /\ []((Reading /\ SymbolDone) => InternalCopy(ctx, SymbolPtr, SymbolText))
    /\ [][(Reading /\ SameSymbolAgain) => SymbolPtr' = SymbolPtr]_vars

\* A definition and a reference to it were read, and both gave offset 0 of
\* the string pool.
C23_ReadWitness ==
    /\ Reading /\ SymbolDone
    /\ ctx.in.buf = DefA \o Ref(0) \o Ref(1)
    /\ ctx.in.cur = Len(DefA \o Ref(0))
    /\ SymbolPtr = 0 /\ SymbolText = <<97>>

\* C23: after a bserial_symbol that succeeds, on read or on write, *buf is
\* the pointer of the context's own copy of the text and *len that text's
\* length, and two occurrences of the same symbol in a row yield the same
\* pointer.
C23_InternalPointer ==
    /\ [](SymbolDone => InternalCopy(ctx, SymbolPtr, SymbolText))
    /\ [][SameSymbolAgain => SymbolPtr' = SymbolPtr]_vars

\* C23 (write, second half): a writer that passes the same text through two
\* pointers gets the same pointer back both times.
C23_WriteSamePointer ==
    [][(Writing /\ SameSymbolAgain) => SymbolPtr' = SymbolPtr]_vars

(***************************************************************************)
(* A caller of the skip traversal alone: the writer of the programs above, *)
(* and then, over the bytes it has written for its first values, a reader  *)
(* that calls bserial_skip_next once for each of them.                     *)
(***************************************************************************)
SkipInit ==
    /\ prog \in Programs
    /\ wconf = Config(MaxDepth)
    /\ ctx = bserial_make_ctx(wconf, NoIn, bserial_mem_init_out(SinkCap))
    /\ phase = "write"
    /\ stk = <<Root(prog)>>
    /\ rproc = "same"
    /\ cut = 0
    /\ op = "make_ctx"
    /\ ret = BSERIAL_OK
    /\ wdefs = << >>

\* The writer is between two values of its program, or past the last.
BetweenValues ==
    /\ phase \in {"write", "written"} /\ ctx.status = BSERIAL_OK
    /\ Len(stk) = 1 /\ stk[1].i > 1

SkipBegin ==
    /\ BetweenValues
    /\ ctx' = bserial_make_ctx(wconf, bserial_mem_init_in(ctx.out.mem, TRUE),
                               NoOut)
    /\ prog' = SubSeq(prog, 1, stk[1].i - 1)
    /\ stk' = <<Root(prog')>>
    /\ phase' = "skip"
    /\ op' = "make_ctx"
    /\ ret' = BSERIAL_OK
    /\ UNCHANGED <<rproc, wconf, cut, wdefs>>

SkipMade(o) ==
    /\ ctx' = o.c
    /\ op' = "skip_next"
    /\ ret' = o.r
    /\ stk' = <<[stk[1] EXCEPT !.i = @ + 1]>>
    /\ UNCHANGED <<phase, prog, rproc, wconf, cut, wdefs>>

SkipValue ==
    /\ phase = "skip" /\ ret = BSERIAL_OK
    /\ stk[1].i <= Len(prog)
    /\ SkipMade(bserial_skip_next(ctx, ctx.config.max_depth))

SkipNext ==
    \/ Uint
    \/ Sint
    \/ F32Op
    \/ F64Op
    \/ BlobHeader
    \/ BlobBody
    \/ Symbol
    \/ Array
    \/ Table
    \/ Record
    \/ Key
    \/ SkipBegin
    \/ SkipValue

SkipSpec == SkipInit /\ [][SkipNext]_vars

\* The number of values skipped so far, and the markers a value may start
\* with.
Skipped == stk[1].i - 1

MarkersOf(node) ==
    CASE node.k = "uint" -> {BSERIAL_UINT}
      [] node.k = "sint" -> {BSERIAL_SINT}
      [] node.k = "f32" -> {BSERIAL_F32}
      [] node.k = "f64" -> {BSERIAL_F64}
      [] node.k = "blob" -> {BSERIAL_BLOB}
      [] node.k = "symbol" -> {BSERIAL_SYM_DEF, BSERIAL_SYM_REF}
      [] node.k = "array" -> {BSERIAL_ARRAY}
      [] node.k = "table" -> {BSERIAL_TABLE}
      [] OTHER -> {BSERIAL_RECORD}

\* The reader has skipped its first values and stands at the first byte of
\* the next one, or at the end of the bytes after the last.
SkippedExactly ==
    /\ ret = BSERIAL_OK /\ ctx.status = BSERIAL_OK
    /\ ctx.marker_buf = BSERIAL_NO_MARKER
    /\ IF Skipped = Len(prog) THEN ctx.in.cur = Len(ctx.in.buf)
       ELSE /\ ctx.in.cur < Len(ctx.in.buf)
            /\ ctx.in.buf[ctx.in.cur + 1] \in MarkersOf(prog[Skipped + 1])

\* An empty table is among the nodes, at any depth.
RECURSIVE HasEmptyTable(_)
HasEmptyTable(node) ==
    \/ node.k = "table" /\ node.e = << >>
    \/ \E j \in 1..Len(node.e) : HasEmptyTable(node.e[j])
    \/ \E j \in 1..Len(node.f) : HasEmptyTable(node.f[j].val)

\* C24 (without empty tables): every value the writer emitted that holds
\* no table of zero rows is skipped with Ok, the skip consuming exactly the
\* bytes written for it.
C24_SkipNoEmptyTable ==
    (phase = "skip" /\ op = "skip_next"
        /\ \A j \in 1..Skipped : ~HasEmptyTable(prog[j]))
        => SkippedExactly

\* Two records were written and skipped, the second naming its fields by
\* reference.
C24_Witness ==
    /\ phase = "skip" /\ op = "skip_next"
    /\ prog = <<RecAB, RecBA>> /\ Skipped = 2
    /\ SkippedExactly

\* C24: for every value the writer emitted (scalar, blob, symbol, array,
\* table or record, empty ones included), bserial_skip_next returns Ok
\* having consumed exactly the bytes written for the value, and leaves the
\* stream at the first byte of the next value.
C24_SkipAgrees ==
    (phase = "skip" /\ op = "skip_next") => SkippedExactly

(***************************************************************************)
(* bserial_key in the value pass of a reader.                              *)
(***************************************************************************)
\* The reader is about to call bserial_key in Read/ValueIO.
AtValueKey ==
    /\ Reading /\ AtKey /\ ctx.status = BSERIAL_OK
    /\ Cur(ctx).type = BSERIAL_SCOPE_RECORD
    /\ Cur(ctx).record_mode = BSERIAL_RECORD_VALUE_IO

\* The schema entry at the iterator of the innermost scope.
EntryIdx == SchemaIdx(Cur(ctx).record_schema, Cur(ctx).iterator)

\* The entry at the iterator was marked with the name of the key by the
\* matching pass: it holds the pointer, and its text is the name's.
MarkedForKey ==
    /\ InPool(ctx, EntryIdx)
    /\ ctx.schema[EntryIdx].field_name = KeyName
    /\ ctx.schema[EntryIdx].symbol_len = Len(NameText(KeyName))
    /\ SymText(ctx, ctx.schema[EntryIdx].symbol, ctx.schema[EntryIdx].symbol_len)
           = NameText(KeyName)

\* Every Record scope of a reader in ValueIO has its iterator within len.
IteratorsWithin ==
    \A d \in 1..Len(ctx.scopes) :
        (Reading /\ ctx.scopes[d].type = BSERIAL_SCOPE_RECORD
            /\ ctx.scopes[d].record_mode = BSERIAL_RECORD_VALUE_IO)
            => ctx.scopes[d].iterator <= ctx.scopes[d].len

\* C25 (below len): in Read/ValueIO with iterator < len, bserial_key
\* answers true exactly when the entry at the iterator was marked with the
\* key's name by the matching pass.
C25_KeyBelowLen ==
    [][(AtValueKey /\ Cur(ctx).iterator < Cur(ctx).len)
           => (ret' = "true" <=> MarkedForKey)]_vars

\* A key was answered true at an index below len.
C25_BelowWitness ==
    /\ Reading /\ op = "key" /\ ret = "true"
    /\ Cur(ctx).type = BSERIAL_SCOPE_RECORD
    /\ Cur(ctx).iterator = 2 /\ Cur(ctx).len = 2

\* C25: in Read/ValueIO bserial_key answers true only when iterator < len
\* and the entry at the iterator was marked with this name by the matching
\* pass of the record (of the first row, in a table); an entry at an index
\* >= len never makes it answer true; and the iterator of a Record scope
\* never exceeds its len.
C25_KeyWithinSchema ==
    /\ [][(AtValueKey /\ ret' = "true")
             => (Cur(ctx).iterator < Cur(ctx).len /\ MarkedForKey)]_vars
    /\ []IteratorsWithin

(***************************************************************************)
(* The order in which a reader consumes the fields of a record.            *)
(***************************************************************************)
\* The offset in the stream of the value of field i + 1 of the one record
\* of the program (of the end of the record, for i the number of fields).
ValueStart(i) ==
    1 + Len(write_uint_bytes(Len(prog[1].f))) + Len(NamesWire(prog[1]))
      + Len(Flat([j \in 1..i |-> PlainWire(prog[1].f[j].val)]))

\* The reader of the one record is in its value pass, between two calls of
\* the record procedure.
InValuePass ==
    /\ Reading /\ ctx.status = BSERIAL_OK /\ OneRecord
    /\ Top.k = "record" /\ ~Top.inval
    /\ Cur(ctx).type = BSERIAL_SCOPE_RECORD
    /\ Cur(ctx).record_mode = BSERIAL_RECORD_VALUE_IO

\* The stream stands at the value of the field at the iterator: the fields
\* before it were consumed, each once, and no byte after them.
AtIterator ==
    /\ Cur(ctx).iterator <= Cur(ctx).len
    /\ ctx.in.cur = ValueStart(Cur(ctx).iterator)

\* The step popped the Record scope.
RecordPopped == Len(ctx'.scopes) < Len(ctx.scopes)

\* The schema entries from the iterator up to n - 1 carry no requested name.
Unrequested(n) ==
    \A i \in Cur(ctx).iterator..(n - 1) :
        ctx.schema[SchemaIdx(Cur(ctx).record_schema, i)].field_name = NULL

\* The value pass of a record: the stream stands at the field at the
\* iterator; a key that is answered true is the one that asked for that
\* field, and the field is then the caller's to read; bserial_record skips
\* only fields nobody asked for, in wire order, unless the stream fails;
\* and the scope is popped with the stream at the end of the record.
WireOrderState(procs) == (InValuePass /\ rproc \in procs) => AtIterator

WireOrderStep(procs) ==
    /\ (InValuePass /\ rproc \in procs /\ AtKey /\ ret' = "true")
          => /\ Cur(ctx).iterator < Cur(ctx).len
             /\ NameText(KeyName)
                    = NameText(prog[1].f[Cur(ctx).iterator + 1].name)
             /\ Cur(ctx').iterator = Cur(ctx).iterator + 1
             /\ ctx'.in.cur = ctx.in.cur
    /\ (InValuePass /\ rproc \in procs /\ AtLoop
            /\ ctx'.status = BSERIAL_OK /\ ~ctx'.in.failed)
          => IF RecordPopped
             THEN /\ Unrequested(Cur(ctx).len)
                  /\ ctx'.in.cur = ValueStart(Cur(ctx).len)
                  /\ ret' = "false"
             ELSE /\ Unrequested(Cur(ctx').iterator)
                  /\ ctx'.in.cur = ValueStart(Cur(ctx').iterator)

\* The procedures that visit their keys in the order of the wire.
InWireOrder == {"same", "first", "last", "none"}

\* C26 (procedures in wire order): when no key is visited after the last
\* field of the record was delivered, the fields are consumed in wire order,
\* each delivered once to its key or skipped once, and the scope is popped
\* after the last.
C26_WireOrderKept ==
    /\ []WireOrderState(InWireOrder)
    /\ [][WireOrderStep(InWireOrder)]_vars

\* The first of two fields was skipped and the second delivered.
C26_Witness ==
    /\ InValuePass /\ rproc = "last" /\ Len(prog[1].f) = 2
    /\ Cur(ctx).iterator = 2 /\ AtIterator
    /\ Top.acc[1] # Unset

\* C26: in Read/ValueIO the wire fields of a record are consumed strictly
\* in wire order, each of the len fields delivered exactly once to the key
\* that requested it or skipped exactly once, none consumed twice or left
\* unconsumed, and the Record scope is popped only after all len fields
\* were consumed.
C26_WireOrder ==
    /\ []WireOrderState(Procedures)
    /\ [][WireOrderStep(Procedures)]_vars

(***************************************************************************)
(* The passes of a writer over a record.                                   *)
(***************************************************************************)
\* The mode of the innermost scope, a Record scope.
RecordMode(c) == Cur(c).record_mode

\* The writer is at the head of the loop of a record it iterates, or at one
\* of its keys.
WriterAtLoop ==
    /\ Writing /\ AtLoop /\ ctx.status = BSERIAL_OK
    /\ Cur(ctx).type = BSERIAL_SCOPE_RECORD
WriterAtKey ==
    /\ Writing /\ AtKey /\ ctx.status = BSERIAL_OK
    /\ Cur(ctx).type = BSERIAL_SCOPE_RECORD

\* The writer enters a record that is not a later row of a table.
WriterEnters ==
    /\ Writing /\ AtRecord /\ ctx.status = BSERIAL_OK
    /\ ~LaterRow

\* The step of a writer kept its status Ok.
WroteOk == ctx'.status = BSERIAL_OK

\* The bserial_record calls of a writer: the first enters the measuring
\* pass, the second writes the field count and enters the key pass, the
\* third enters the value pass and the fourth pops the scope.
RecordPasses ==
    /\ (WriterEnters /\ WroteOk)
          => /\ ret' = "true"
             /\ Len(ctx'.scopes) = Len(ctx.scopes) + 1
             /\ RecordMode(ctx') = BSERIAL_RECORD_MEASURE_WIDTH
             /\ Emitted = IF Top.k = "table" THEN << >> ELSE <<BSERIAL_RECORD>>
    /\ (WriterAtLoop /\ WroteOk
            /\ RecordMode(ctx) = BSERIAL_RECORD_MEASURE_WIDTH)
          => /\ ret' = "true"
             /\ RecordMode(ctx') = BSERIAL_RECORD_KEY_IO
             /\ Emitted = write_uint_bytes(Len(Top.fields))
    /\ (WriterAtLoop /\ WroteOk /\ RecordMode(ctx) = BSERIAL_RECORD_KEY_IO)
          => /\ ret' = "true"
             /\ RecordMode(ctx') = BSERIAL_RECORD_VALUE_IO
             /\ Emitted = << >>
    /\ (WriterAtLoop /\ WroteOk /\ RecordMode(ctx) = BSERIAL_RECORD_VALUE_IO)
          => /\ ret' = "false"
             /\ Len(ctx'.scopes) < Len(ctx.scopes)
             /\ Emitted = << >>

\* The bserial_key calls of a writer: false without a byte when measuring,
\* false with the name's symbol in the key pass, true without a byte in the
\* value pass.
KeyPasses ==
    /\ (WriterAtKey /\ RecordMode(ctx) = BSERIAL_RECORD_MEASURE_WIDTH)
          => ret' = "false" /\ Emitted = << >>
    /\ (WriterAtKey /\ WroteOk /\ RecordMode(ctx) = BSERIAL_RECORD_KEY_IO)
          => /\ ret' = "false"
             /\ Emitted # << >>
             /\ Emitted[1] \in {BSERIAL_SYM_DEF, BSERIAL_SYM_REF}
    /\ (WriterAtKey /\ RecordMode(ctx) = BSERIAL_RECORD_VALUE_IO)
          => ret' = "true" /\ Emitted = << >>

\* A value is written in a record only in the value pass.
ValuesLast ==
    (Writing /\ AtValue /\ ctx.status = BSERIAL_OK
        /\ Cur(ctx).type = BSERIAL_SCOPE_RECORD)
        => RecordMode(ctx) = BSERIAL_RECORD_VALUE_IO

\* C27: a writer runs the body of a record that is not a later row of a
\* table three times, measuring, then writing the keys, then the values:
\* bserial_key answers false for every key of the first two passes and
\* true for every key of the third, no value is written before the field
\* count and the names, and the fourth call of bserial_record pops the
\* Record scope and returns false.
C27_WritePasses ==
    /\ [][RecordPasses /\ KeyPasses]_vars
    /\ []ValuesLast

\* The fourth call of bserial_record for a record of two fields returned
\* false.
C27_Witness ==
    /\ phase = "written" /\ op = "record" /\ ret = "false"
    /\ prog = <<RecAB>> /\ ctx.status = BSERIAL_OK
    /\ ctx.out.mem = <<BSERIAL_RECORD, 2>> \o NamesWire(RecAB) \o ValuesWire(RecAB)

(***************************************************************************)
(* bserial_key in the matching pass of a reader.                           *)
(***************************************************************************)
\* The reader's innermost scope is a record in Read/KeyIO.
InMatchingPass ==
    /\ Reading /\ ctx.status = BSERIAL_OK
    /\ Cur(ctx).type = BSERIAL_SCOPE_RECORD
    /\ Cur(ctx).record_mode = BSERIAL_RECORD_KEY_IO

\* The entry idx of the schema pool is an entry of the record being matched,
\* and its text is that of `name`, byte for byte.
NamedLike(idx, name) ==
    /\ idx - Cur(ctx).record_schema \in 0..(Cur(ctx).len - 1)
    /\ SymText(ctx, ctx.schema[idx].symbol, ctx.schema[idx].symbol_len)
           = NameText(name)

\* C28: in Read/KeyIO bserial_key answers false, consumes no byte of the
\* stream, keeps the status and the symbol table, and sets the name it was
\* called with on exactly the schema entries below len whose text equals
\* the name in length and bytes; every other entry keeps its mark, and
\* every entry its symbol.
C28_MatchingPass ==
    [][(InMatchingPass /\ op' = "key")
          => /\ ret' = "false"
             /\ ctx'.in = ctx.in
             /\ ctx'.status = BSERIAL_OK
             /\ SymbolState(ctx') = SymbolState(ctx)
             /\ \A idx \in 1..SchemaPoolLen(ctx.config) :
                    /\ ctx'.schema[idx].field_name
                           = IF NamedLike(idx, Arg'.v) THEN Arg'.v
                             ELSE ctx.schema[idx].field_name
                    /\ ctx'.schema[idx].symbol = ctx.schema[idx].symbol
                    /\ ctx'.schema[idx].symbol_len = ctx.schema[idx].symbol_len
      ]_vars

\* A key named a marked both fields of a record whose two fields are named
\* a, and a key named b one field of two.
C28_Witness ==
    /\ Reading /\ op = "key" /\ ret = "false"
    /\ Cur(ctx).type = BSERIAL_SCOPE_RECORD /\ Cur(ctx).len = 2
    /\ Cur(ctx).record_mode = BSERIAL_RECORD_KEY_IO
    /\ \/ /\ Arg.v = 1
          /\ \A i \in 0..1 :
                 ctx.schema[SchemaIdx(Cur(ctx).record_schema, i)].field_name = 1
       \/ /\ Arg.v = 2
          /\ ctx.schema[SchemaIdx(Cur(ctx).record_schema, 0)].field_name = 2
          /\ ctx.schema[SchemaIdx(Cur(ctx).record_schema, 1)].field_name = NULL


\* ---------------------------------------------------------------------
\* The record loop of a reader, pass by pass (BSERIAL_RECORD, BSERIAL_KEY):
\*     while (bserial_record(ctx, rec)) {
\*         if (bserial_key(ctx, k1, n1)) { bserial_uint(ctx, &v1); }
\*         if (bserial_key(ctx, k2, n2)) { bserial_uint(ctx, &v2); } ...
\*     }
\* over a record whose fields are any distinct names in any order, with a
\* procedure that asks for any distinct names in any order.  The caller
\* counts the ValueIO passes it was let into and the wire fields each of
\* them delivered.
MaxPasses == 5

LoopKeys == {1, 2, 3}

KeySeqs ==
    { s \in UNION { [1..n -> LoopKeys] : n \in 0..Cardinality(LoopKeys) } :
        \A i, j \in DOMAIN s : s[i] = s[j] => i = j }

LoopWire(s) ==
    <<BSERIAL_RECORD, Len(s)>>
        \o Flat([j \in 1..Len(s) |-> SymDefWire(NameText(s[j]))])
        \o Rep(Len(s), U7)

LoopConfig ==
    [Config(MaxDepth) EXCEPT !.max_record_fields = Cardinality(LoopKeys)]

LoopFrame(keys, fields) ==
    [keys |-> keys, fields |-> fields, pos |-> 0, inval |-> FALSE,
     passes |-> 0, got |-> 0]

LoopInit ==
    /\ wconf = LoopConfig
    /\ \E fields \in KeySeqs, keys \in KeySeqs :
          /\ ctx = bserial_make_ctx(wconf,
                       bserial_mem_init_in(LoopWire(fields), TRUE), NoOut)
          /\ stk = <<LoopFrame(keys, fields)>>
    /\ phase = "read"
    /\ prog = << >>
    /\ rproc = "none"
    /\ cut = 0
    /\ op = "make_ctx"
    /\ ret = BSERIAL_OK
    /\ wdefs = << >>

Loop == stk[1]

LoopMade(name, o, f) ==
    /\ ctx' = o.c
    /\ op' = name
    /\ ret' = Bool(o.r)
    /\ stk' = <<f>>
    /\ UNCHANGED <<prog, rproc, wconf, cut, wdefs>>

InValueIO(c) ==
    /\ Cur(c).type = BSERIAL_SCOPE_RECORD
    /\ Cur(c).record_mode = BSERIAL_RECORD_VALUE_IO

\* The head of the loop: a pass begins when bserial_record answers true,
\* the loop is left when it answers false.
LoopRecordMade(o) ==
    /\ LoopMade("record", o,
          IF o.r
          THEN [Loop EXCEPT
                   !.pos = IF Len(Loop.keys) = 0 THEN 0 ELSE 1,
                   !.passes = IF InValueIO(o.c) THEN @ + 1 ELSE @,
                   !.got = 0]
          ELSE Loop)
    /\ phase' = IF o.r THEN "read" ELSE "done"

LoopRecord ==
    /\ phase = "read"
    /\ Loop.pos = 0
    /\ Loop.passes < MaxPasses
    /\ LoopRecordMade(bserial_record(ctx, RecordAddr(1)))

LoopAfter(f) ==
    [f EXCEPT !.inval = FALSE,
              !.pos = IF f.pos = Len(f.keys) THEN 0 ELSE f.pos + 1]

\* The key answers for a wire field when the record is in ValueIO and its
\* iterator is at one of the fields the stream declared.
AtWireField == InValueIO(ctx) /\ Cur(ctx).iterator < Cur(ctx).len

LoopKeyMade(o) ==
    /\ LoopMade("key", o,
          IF o.r
          THEN [Loop EXCEPT !.inval = TRUE,
                            !.got = IF AtWireField THEN @ + 1 ELSE @]
          ELSE LoopAfter(Loop))
    /\ UNCHANGED phase

LoopKey ==
    /\ phase = "read"
    /\ Loop.pos > 0
    /\ ~Loop.inval
    /\ \E garbage \in Garbage :
          LoopKeyMade(bserial_key(ctx, Loop.keys[Loop.pos],
                                  Len(NameText(Loop.keys[Loop.pos])), garbage))

LoopValueMade(o) ==
    /\ LoopMade("uint", [c |-> o.c, r |-> o.r = BSERIAL_OK], LoopAfter(Loop))
    /\ UNCHANGED phase

LoopValue ==
    /\ phase = "read"
    /\ Loop.inval
    /\ LoopValueMade(bserial_uint(ctx, 0))

LoopNext == LoopRecord \/ LoopKey \/ LoopValue

LoopSpec == LoopInit /\ [][LoopNext]_vars

\* The caller runs its loop to the end: weak fairness of LoopNext, with
\* ENABLED <<LoopNext>>_vars written out as the guards of its three actions
\* (every step of the loop changes the caller's position or the context).
LoopCanAct ==
    /\ phase = "read"
    /\ Loop.pos = 0 => Loop.passes < MaxPasses

LoopFair ==
    LoopSpec /\ ([]<>(~LoopCanAct) \/ []<><<LoopNext>>_vars)

\* A ValueIO pass has run to its end: the caller is back at the head of
\* the loop after a pass that bserial_record let it into.
PassEnded ==
    /\ phase = "read"
    /\ Loop.pos = 0
    /\ Loop.passes > 0
    /\ ctx.status = BSERIAL_OK
    /\ InValueIO(ctx)

\* C29: reading a record terminates.  Every ValueIO pass that
\* bserial_record lets the caller into delivers at least one wire field the
\* procedure asks for, there are never more such passes than the record has
\* wire fields (so the call after them answers false), and the loop is
\* left, for every order of the wire fields and of the requested fields.
C29_RecordTerminates ==
    /\ [](PassEnded => Loop.got >= 1)
    /\ [](Loop.passes <= Len(Loop.fields))
    /\ <>(phase = "done")

\* Three wire fields asked for in the opposite order were delivered in
\* three passes and the loop was left.
C29_Witness ==
    /\ phase = "done"
    /\ Len(Loop.fields) = Cardinality(LoopKeys)
    /\ Loop.keys = [j \in 1..Len(Loop.fields) |->
                       Loop.fields[Len(Loop.fields) + 1 - j]]
    /\ Loop.passes = Len(Loop.fields)
    /\ ctx.status = BSERIAL_OK


\* ---------------------------------------------------------------------
\* Nested records (serialize_original over serialize_vec2f):
\*     while (bserial_record(ctx, rec)) {
\*         if (bserial_key(ctx, "a", 1)) {
\*             while (bserial_record(ctx, &rec->a)) {
\*                 if (bserial_key(ctx, "cd", 2)) { bserial_uint(ctx, &v); }
\*             }
\*         }
\*         if (bserial_key(ctx, "b", 1)) { bserial_uint(ctx, &w); }
\*     }
\* The nested record lies at the address of the enclosing record when it is
\* the first member of the struct, at another address otherwise.  A failed
\* value ends the procedure (BSERIAL_CHECK_STATUS).
NestItem(name, nested) == [name |-> name, nested |-> nested]

InnerKeys == <<NestItem(3, FALSE)>>

OuterKeys ==
    { <<NestItem(1, TRUE)>>,
      <<NestItem(1, TRUE), NestItem(2, FALSE)>>,
      <<NestItem(2, FALSE), NestItem(1, TRUE)>> }

InnerWire == <<BSERIAL_RECORD, 1>> \o SymDefWire(NameText(3)) \o U7

NestWires ==
    { <<BSERIAL_RECORD, 1>> \o DefA \o InnerWire,
      <<BSERIAL_RECORD, 2>> \o DefA \o DefB \o InnerWire \o U7,
      <<BSERIAL_RECORD, 2>> \o DefB \o DefA \o U7 \o InnerWire }

NestFrame(addr, keys, pos) ==
    [addr |-> addr, keys |-> keys, pos |-> pos, inval |-> FALSE]

NestInit ==
    /\ wconf = Config(MaxDepth)
    /\ \/ /\ phase = "write"
          /\ ctx = bserial_make_ctx(wconf, NoIn, bserial_mem_init_out(SinkCap))
       \/ /\ phase = "read"
          /\ \E w \in NestWires :
                ctx = bserial_make_ctx(wconf, bserial_mem_init_in(w, TRUE),
                                       NoOut)
    /\ \E keys \in OuterKeys : stk = <<NestFrame(RecordAddr(1), keys, 0)>>
    /\ prog \in {<<RecordAddr(1)>>, <<RecordAddr(2)>>}
    /\ rproc = "none"
    /\ cut = 0
    /\ op = "make_ctx"
    /\ ret = BSERIAL_OK
    /\ wdefs = << >>

\* Address of the nested record, and the key the caller stands at.
InnerAddr == prog[1]
NestAt == Top.keys[Top.pos]
NestRunning == phase \in {"write", "read"}

NestMade(name, o, s, ended) ==
    /\ ctx' = o.c
    /\ op' = name
    /\ ret' = Bool(o.r)
    /\ stk' = s
    /\ phase' = IF ended THEN "done" ELSE phase
    /\ UNCHANGED <<prog, rproc, wconf, cut, wdefs>>

NestAfter(f) ==
    [f EXCEPT !.inval = FALSE,
              !.pos = IF f.pos = Len(f.keys) THEN 0 ELSE f.pos + 1]

Replaced(s, f) == [s EXCEPT ![Len(s)] = f]

\* The value of a field is complete: the caller checks the status and moves
\* to its next key.
NestValueDone(o, s) ==
    IF o.c.status # BSERIAL_OK
    THEN NestMade("record", o, s, TRUE)
    ELSE NestMade("record", o, Replaced(s, NestAfter(s[Len(s)])), FALSE)

\* bserial_record as the condition of a while loop: of the loop the caller
\* is in, or of the loop of the nested record it is about to enter.
NestLooped(o) ==
    IF o.r
    THEN NestMade("record", o, Replaced(stk, [Top EXCEPT !.pos = 1]), FALSE)
    ELSE IF Len(stk) = 1
         THEN NestMade("record", o, stk, TRUE)
         ELSE NestValueDone(o, SubSeq(stk, 1, Len(stk) - 1))

NestEntered(o) ==
    IF o.r
    THEN NestMade("record", o, Append(stk, NestFrame(InnerAddr, InnerKeys, 1)),
                  FALSE)
    ELSE NestValueDone(o, stk)

NestRecord ==
    /\ NestRunning
    /\ \/ /\ Top.pos = 0
          /\ NestLooped(bserial_record(ctx, Top.addr))
       \/ /\ Top.pos > 0
          /\ Top.inval
          /\ NestAt.nested
          /\ NestEntered(bserial_record(ctx, InnerAddr))

NestKeyMade(o) ==
    NestMade("key", o,
             Replaced(stk, IF o.r THEN [Top EXCEPT !.inval = TRUE]
                                  ELSE NestAfter(Top)),
             FALSE)

NestKey ==
    /\ NestRunning
    /\ Top.pos > 0
    /\ ~Top.inval
    /\ \E garbage \in IF Writing THEN {NULL} ELSE Garbage :
          NestKeyMade(bserial_key(ctx, NestAt.name,
                                  Len(NameText(NestAt.name)), garbage))

NestUintMade(o) ==
    NestMade("uint", [c |-> o.c, r |-> o.r = BSERIAL_OK],
             Replaced(stk, NestAfter(Top)), o.r # BSERIAL_OK)

NestUint ==
    /\ NestRunning
    /\ Top.pos > 0
    /\ Top.inval
    /\ ~NestAt.nested
    /\ NestUintMade(bserial_uint(ctx, IF Writing THEN 7 ELSE 0))

NestNext == NestRecord \/ NestKey \/ NestUint

NestSpec == NestInit /\ [][NestNext]_vars

\* The caller calls bserial_record for the value of a field of the record
\* in ValueIO, and the call does not fail.
EnclosingInValueIO ==
    /\ NestRunning
    /\ Top.pos > 0
    /\ Top.inval
    /\ NestAt.nested
    /\ ctx.status = BSERIAL_OK
    /\ InValueIO(ctx)
    /\ Cur(ctx).record_addr = Top.addr

NestedRecordCalled ==
    /\ EnclosingInValueIO
    /\ op' = "record"
    /\ ctx'.status = BSERIAL_OK
    /\ Reading => ~ctx'.in.failed

\* A new Record scope for the address passed lies on top of the enclosing
\* record's scope, whose mode and iterator are as the call found them.
NestedPushed ==
    /\ Len(ctx'.scopes) = Len(ctx.scopes) + 1
    /\ Cur(ctx').type = BSERIAL_SCOPE_RECORD
    /\ Cur(ctx').record_addr = InnerAddr
    /\ ctx'.scopes[Len(ctx.scopes)].record_mode = Cur(ctx).record_mode
    /\ ctx'.scopes[Len(ctx.scopes)].iterator = Cur(ctx).iterator
    /\ ret' = "true"

\* C30 (as far as it holds): a nested record passed under an address other
\* than the enclosing record's gets a new Record scope, and the enclosing
\* record's mode and iterator stay as they were.
C30_NestedElsewhere ==
    [][NestedRecordCalled /\ InnerAddr # Top.addr => NestedPushed]_vars

\* A nested record at another address was read to its end inside the
\* enclosing record, which then delivered its second field.
C30_ElsewhereWitness ==
    /\ phase = "done"
    /\ InnerAddr # RecordAddr(1)
    /\ ctx.status = BSERIAL_OK
    /\ ctx.in.attached
    /\ ctx.in.cur = Len(ctx.in.buf)
    /\ Len(stk[1].keys) = 2

\* C30: a record that is the value of a field of the record in ValueIO gets
\* a new Record scope and leaves the enclosing record's mode and iterator
\* alone, whatever address the caller passes for it.
C30_NestedRecord ==
    [][NestedRecordCalled => NestedPushed]_vars


\* ---------------------------------------------------------------------
\* bserial_skip called directly on a stream, with and without a skip
\* callback, for stream lengths and sizes around the multiples of the
\* block size.
MaxBlocks == 2

NearBlocks ==
    { k * BSERIAL_SKIP_BLKSIZE + d : k \in 0..MaxBlocks, d \in {-1, 0, 1} }
        \cap Nat

BlkInit ==
    /\ wconf = Config(MaxDepth)
    /\ \E n \in NearBlocks, has_skip \in BOOLEAN :
          ctx = bserial_make_ctx(wconf,
                    bserial_mem_init_in([i \in 1..n |-> 0], has_skip), NoOut)
    /\ prog \in { <<size>> : size \in NearBlocks }
    /\ phase = "read"
    /\ stk = << >>
    /\ rproc = "none"
    /\ cut = 0
    /\ op = "make_ctx"
    /\ ret = BSERIAL_OK
    /\ wdefs = << >>

\* What a build may do once the block loop has written past its buffer:
\* return either status with the stream at any position.
UbOutcomes(in) ==
    { [in |-> [in EXCEPT !.cur = k, !.failed = (r # BSERIAL_OK)], r |-> r] :
        k \in 0..Len(in.buf), r \in {BSERIAL_OK, BSERIAL_IO_ERROR} }

BlkSize == prog[1]
BlkAvailable == Len(ctx.in.buf)

BlkSkipped(sk) ==
    /\ ctx' = [ctx EXCEPT !.in = sk.in]
    /\ op' = "skip"
    /\ ret' = sk.r
    /\ phase' = "done"
    /\ UNCHANGED <<prog, stk, rproc, wconf, cut, wdefs>>

BlkSkip ==
    /\ phase = "read"
    /\ \E ub \in UbOutcomes(ctx.in) :
          BlkSkipped(bserial_skip(ctx.in, BlkSize, ub))

BlkNext == BlkSkip

BlkSpec == BlkInit /\ [][BlkNext]_vars

BlkDone == phase = "done" /\ op = "skip"

SkippedBytes(size) ==
    /\ BlkAvailable >= size => ret = BSERIAL_OK /\ ctx.in.cur = size
    /\ ret = BSERIAL_IO_ERROR => BlkAvailable < size

\* C31 (as far as it holds): with a skip callback, or with a size of zero or
\* of exactly one block, bserial_skip consumes exactly `size` bytes and
\* returns Ok when they are there, and returns IoError only when the
\* stream runs out.
C31_SkipWholeBlock ==
    BlkDone /\ (ctx.in.skip \/ BlkSize \in {0, BSERIAL_SKIP_BLKSIZE})
        => SkippedBytes(BlkSize)

C31_BlockWitness ==
    /\ BlkDone
    /\ ~ctx.in.skip
    /\ BlkSize = BSERIAL_SKIP_BLKSIZE
    /\ BlkAvailable > BlkSize
    /\ ret = BSERIAL_OK
    /\ ctx.in.cur = BlkSize

\* C31: without a skip callback bserial_skip consumes exactly `size` bytes
\* and returns Ok when at least `size` bytes are available, for sizes below
\* and above the block size, and returns IoError only when the stream runs
\* out.
C31_SkipExact == BlkDone /\ ~ctx.in.skip => SkippedBytes(BlkSize)


\* ---------------------------------------------------------------------
\* Operations directly inside a table.
InTable == Cur(ctx).type = BSERIAL_SCOPE_TABLE /\ ctx.status = BSERIAL_OK

NotARow ==
    op' \in {"uint", "sint", "f32", "f64", "blob_header", "symbol", "array",
             "table"}

RefusedUntouched ==
    /\ ctx'.status = BSERIAL_MALFORMED
    /\ ret' = BSERIAL_MALFORMED
    /\ ctx'.scopes = ctx.scopes
    /\ ctx'.in = ctx.in
    /\ ctx'.out = ctx.out

\* C32: while the innermost scope is a Table, a scalar, blob, symbol, array
\* or table operation latches Malformed, is not counted as a row (the scope
\* stack and the table's iterator stay as they were) and leaves both
\* streams untouched.
C32_TableOnlyRecords == [][InTable /\ NotARow => RefusedUntouched]_vars

\* A reader and a writer each had such an operation refused in a table.
C32_Witness ==
    /\ op \in {"uint", "symbol", "array"}
    /\ ctx.status = BSERIAL_MALFORMED
    /\ Cur(ctx).type = BSERIAL_SCOPE_TABLE
    /\ Cur(ctx).iterator = 0
    /\ Calls = 2


\* ---------------------------------------------------------------------
\* Operations that need a scope of their own kind.
OutsideRecord == ctx.status = BSERIAL_OK /\ Cur(ctx).type # BSERIAL_SCOPE_RECORD
OutsideBlob == ctx.status = BSERIAL_OK /\ Cur(ctx).type # BSERIAL_SCOPE_BLOB

KeyRefused ==
    /\ ctx'.status = BSERIAL_MALFORMED
    /\ ret' = "false"

BlobBodyRefused ==
    /\ ctx'.status = BSERIAL_MALFORMED
    /\ ret' = BSERIAL_MALFORMED

\* C33: bserial_key called while the innermost scope is not a Record (Root,
\* or an open Array, Table or Blob) latches Malformed and returns false, and
\* bserial_blob_body called while the innermost scope is not a Blob latches
\* Malformed.
C33_ScopeDiscipline ==
    [][/\ OutsideRecord /\ op' = "key" => KeyRefused
       /\ OutsideBlob /\ op' = "blob_body" => BlobBodyRefused]_vars

\* A key was refused inside an open blob, array or table.
C33_Witness ==
    /\ op = "key"
    /\ ret = "false"
    /\ ctx.status = BSERIAL_MALFORMED
    /\ Cur(ctx).type \in {BSERIAL_SCOPE_BLOB, BSERIAL_SCOPE_ARRAY,
                          BSERIAL_SCOPE_TABLE}
    /\ Len(ctx.scopes) = 3


\* ---------------------------------------------------------------------
\* Reading with an operation of another kind than the marker on the wire.
\* The reader stands before a marker, in a scope where a value may go, and
\* the caller's variable was never written (UNINIT).
BeforeMarker ==
    /\ Reading
    /\ ctx.status = BSERIAL_OK
    /\ ctx.marker_buf = BSERIAL_NO_MARKER
    /\ Cur(ctx).type \in {BSERIAL_SCOPE_ROOT, BSERIAL_SCOPE_ARRAY}
    /\ ctx.in.cur < Len(ctx.in.buf)

WireMarker == ctx.in.buf[ctx.in.cur + 1]

\* The operation latched Malformed, consumed no more than the marker and
\* left the caller's variable as it was.
Mistyped(o) ==
    /\ o.c.status = BSERIAL_MALFORMED
    /\ o.r = BSERIAL_MALFORMED
    /\ o.v = UNINIT
    /\ o.c.in.cur <= ctx.in.cur + 1

MistypedSymbol(o) ==
    /\ o.c.status = BSERIAL_MALFORMED
    /\ o.r = BSERIAL_MALFORMED
    /\ o.buf = UNINIT
    /\ o.len = UNINIT
    /\ o.c.in.cur <= ctx.in.cur + 1

MistypedRecord(o) ==
    /\ o.c.status = BSERIAL_MALFORMED
    /\ o.r = FALSE
    /\ o.c.in.cur <= ctx.in.cur + 1

TypeChecked ==
    BeforeMarker =>
        /\ WireMarker # BSERIAL_UINT => Mistyped(bserial_uint(ctx, UNINIT))
        /\ WireMarker # BSERIAL_SINT => Mistyped(bserial_sint(ctx, UNINIT))
        /\ WireMarker # BSERIAL_F32 => Mistyped(bserial_f32(ctx, UNINIT))
        /\ WireMarker # BSERIAL_F64 => Mistyped(bserial_f64(ctx, UNINIT))
        /\ WireMarker # BSERIAL_BLOB =>
               Mistyped(bserial_blob_header(ctx, UNINIT))
        /\ WireMarker # BSERIAL_ARRAY =>
               Mistyped(bserial_array(ctx, UNINIT))
        /\ WireMarker # BSERIAL_TABLE =>
               Mistyped(bserial_table(ctx, UNINIT))
        /\ WireMarker \notin {BSERIAL_SYM_DEF, BSERIAL_SYM_REF} =>
               MistypedSymbol(bserial_symbol(ctx, UNINIT, UNINIT, << >>))
        /\ WireMarker # BSERIAL_RECORD =>
               MistypedRecord(bserial_record(ctx, RecordAddr(1)))

\* The kind of marker each operation of the caller reads.
MarkersRead(name) ==
    CASE name = "uint" -> {BSERIAL_UINT}
      [] name = "sint" -> {BSERIAL_SINT}
      [] name = "f32" -> {BSERIAL_F32}
      [] name = "f64" -> {BSERIAL_F64}
      [] name = "blob_header" -> {BSERIAL_BLOB}
      [] name = "symbol" -> {BSERIAL_SYM_DEF, BSERIAL_SYM_REF}
      [] name = "array" -> {BSERIAL_ARRAY}
      [] name = "table" -> {BSERIAL_TABLE}
      [] name = "record" -> {BSERIAL_RECORD}
      [] OTHER -> {}

MistypedCall ==
    /\ BeforeMarker
    /\ MarkersRead(op') # {}
    /\ WireMarker \notin MarkersRead(op')

\* C34: a read whose operation is of another kind than the marker on the
\* wire latches Malformed and stores nothing into the caller's variable,
\* for every operation at every marker the reader comes to stand before.
C34_TypeChecked ==
    /\ []TypeChecked
    /\ [][MistypedCall => ctx'.status = BSERIAL_MALFORMED /\ Last' = Unset]_vars

\* bserial_uint met the marker of a SInt.
C34_Witness ==
    /\ op = "uint"
    /\ ctx.status = BSERIAL_MALFORMED
    /\ ctx.in.attached
    /\ ctx.in.cur = 1
    /\ ctx.in.buf[1] = BSERIAL_SINT
    /\ Last = Unset


\* ---------------------------------------------------------------------
\* bserial_blob: header and body in one call, with *len as the capacity of
\* the caller's buffer on read.

\* A bserial_blob that takes every wire length for one that fits.
blob_fits_any(actual_len, len) == TRUE

\* !(actual_len > *len)
blob_fits(actual_len, len) == ~(actual_len > len)

blob_filled(bd, actual_len) ==
    [c |-> bd.c, r |-> bd.r, buf |-> bd.v, len |-> actual_len]

blob_headed(hd, buf, len) ==
    IF hd.r # BSERIAL_OK
    THEN [c |-> hd.c, r |-> hd.r, buf |-> buf, len |-> len]
    ELSE IF ~blob_fits(hd.v, len)
    THEN [c |-> bserial_malformed(hd.c).c, r |-> BSERIAL_MALFORMED,
          buf |-> buf, len |-> len]
    ELSE blob_filled(bserial_blob_body(hd.c, buf), hd.v)

bserial_blob(c, buf, len) == blob_headed(bserial_blob_header(c, len), buf, len)

\* TEST(unstructured, blob): a blob is written, then read back into a
\* buffer of some capacity.
MaxBlob == 2

BlobBytes == {0, 9, 255}
BlobTexts == UNION { [1..n -> BlobBytes] : n \in 0..MaxBlob }
BlobCaps == 0..(MaxBlob + 1)

BlobInit ==
    /\ wconf = Config(MaxDepth)
    /\ ctx = bserial_make_ctx(wconf, NoIn, bserial_mem_init_out(SinkCap))
    /\ phase = "write"
    /\ \E text \in BlobTexts, cap \in BlobCaps : prog = <<text, cap>>
    /\ stk = << >>
    /\ rproc = "none"
    /\ cut = 0
    /\ op = "make_ctx"
    /\ ret = BSERIAL_OK
    /\ wdefs = << >>

BlobText == prog[1]
BlobCap == prog[2]

BlobMade(o, next) ==
    /\ ctx' = o.c
    /\ op' = "blob"
    /\ ret' = o.r
    /\ stk' = <<[buf |-> o.buf, len |-> o.len]>>
    /\ phase' = next
    /\ UNCHANGED <<prog, rproc, wconf, cut, wdefs>>

BlobWrite ==
    /\ phase = "write"
    /\ BlobMade(bserial_blob(ctx, BlobText, Len(BlobText)), "written")

BlobMakeReader ==
    /\ phase = "written"
    /\ ctx.status = BSERIAL_OK
    /\ ctx' = bserial_make_ctx(wconf, bserial_mem_init_in(ctx.out.mem, TRUE),
                               NoOut)
    /\ op' = "make_ctx"
    /\ ret' = BSERIAL_OK
    /\ stk' = << >>
    /\ phase' = "read"
    /\ UNCHANGED <<prog, rproc, wconf, cut, wdefs>>

\* The caller's buffer of BlobCap bytes, never written.
BlobBuf == [i \in 1..BlobCap |-> UNINIT]

BlobRead ==
    /\ phase = "read"
    /\ BlobMade(bserial_blob(ctx, BlobBuf, BlobCap), "done")

BlobNext == BlobWrite \/ BlobMakeReader \/ BlobRead

BlobSpec == BlobInit /\ [][BlobNext]_vars

BlobWasRead == phase = "done" /\ op = "blob"

\* The bytes the caller finds in its buffer under the length it got back.
\* (A body read leaves in `buf` the bytes it copied, an empty body leaves
\* the buffer alone.)
BlobGot == SubSeq(stk[1].buf, 1, stk[1].len)

\* C35: reading with bserial_blob never copies more than the caller's
\* capacity.  A wire blob longer than the *len passed in latches Malformed
\* with the buffer and *len as they were and no body byte consumed;
\* otherwise *len is the wire length, exactly that many bytes are copied,
\* and they are the bytes written.
C35_BlobCapacity ==
    BlobWasRead =>
        /\ Len(stk[1].buf) <= BlobCap
        /\ IF Len(BlobText) > BlobCap
           THEN /\ ctx.status = BSERIAL_MALFORMED
                /\ ret = BSERIAL_MALFORMED
                /\ stk[1].buf = BlobBuf
                /\ stk[1].len = BlobCap
                /\ Len(ctx.in.buf) - ctx.in.cur = Len(BlobText)
           ELSE /\ ctx.status = BSERIAL_OK
                /\ ret = BSERIAL_OK
                /\ stk[1].len = Len(BlobText)
                /\ BlobGot = BlobText
                /\ ctx.in.cur = Len(ctx.in.buf)

\* The longest blob was refused by a buffer one byte too short.
C35_Witness ==
    /\ BlobWasRead
    /\ Len(BlobText) = MaxBlob
    /\ BlobCap = Len(BlobText) - 1
    /\ ctx.status = BSERIAL_MALFORMED


\* ---------------------------------------------------------------------
\* The scope stack.  ctx->scope is the index Len(ctx.scopes) - 1.
OpTypes ==
    {BSERIAL_OP_NUMERIC, BSERIAL_OP_BLOB, BSERIAL_OP_SYMBOL, BSERIAL_OP_TABLE,
     BSERIAL_OP_ARRAY, BSERIAL_OP_RECORD}

ScopeStack ==
    /\ Len(ctx.scopes) - 1 \in 0..(ctx.config.max_depth - 1)
    /\ ctx.scopes[1].type = BSERIAL_SCOPE_ROOT
    /\ \A i \in 2..Len(ctx.scopes) : ctx.scopes[i].type # BSERIAL_SCOPE_ROOT

\* bserial_end_op, the only caller of bserial_pop_scope, is never refused by
\* it: whatever operation ends, no pop of Root is attempted.
RootNotPopped ==
    ctx.status = BSERIAL_OK =>
        \A o \in OpTypes : bserial_end_op(ctx, o).r = BSERIAL_OK

\* C36: in every reachable state the scope index lies in 0..max_depth-1,
\* frame 0 is a Root frame and the only one, no operation attempts to pop
\* Root, and the Root frame stays as bserial_make_ctx made it.
C36_ScopeStack ==
    /\ []ScopeStack
    /\ []RootNotPopped
    /\ [][ctx'.scopes[1] = ctx.scopes[1]]_vars

\* The stack is full and a further push was refused.
C36_Witness ==
    /\ Len(ctx.scopes) = ctx.config.max_depth
    /\ ctx.status = BSERIAL_MALFORMED
    /\ op \in {"array", "table", "record", "blob_header"}
    /\ Cur(ctx).type \in {BSERIAL_SCOPE_ARRAY, BSERIAL_SCOPE_RECORD}


\* ---------------------------------------------------------------------
\* The schema pool.  ctx->schema_pool is an index into ctx.schema; the pool
\* starts at PoolBase and holds max_depth * max_record_fields entries.
PoolBase == bserial_make_ctx(Config(MaxDepth), NoIn, NoOut).schema_pool

OwnsSchema(scope) == scope.type \in {BSERIAL_SCOPE_RECORD, BSERIAL_SCOPE_TABLE}

\* The number of Record and Table frames among the first n frames.
SchemaFrames(n) == Cardinality({ i \in 1..n : OwnsSchema(ctx.scopes[i]) })

CursorAfter(n) == PoolBase + ctx.config.max_record_fields * SchemaFrames(n)

PoolCursor ==
    /\ ctx.schema_pool = CursorAfter(Len(ctx.scopes))
    /\ ctx.schema_pool - PoolBase <= SchemaPoolLen(ctx.config)
    /\ \A i \in 2..Len(ctx.scopes) :
          ctx.scopes[i].prev_schema_pool = CursorAfter(i - 1)

\* Frames that own schema slots own different ones, except a row of a
\* table, which may have the slots of its table.
DisjointSlots ==
    \A i, j \in 1..Len(ctx.scopes) :
        /\ i < j
        /\ OwnsSchema(ctx.scopes[i])
        /\ OwnsSchema(ctx.scopes[j])
        /\ ctx.scopes[i].record_schema = ctx.scopes[j].record_schema
        => /\ j = i + 1
           /\ ctx.scopes[i].type = BSERIAL_SCOPE_TABLE
           /\ ctx.scopes[j].type = BSERIAL_SCOPE_RECORD

SlotsInPool ==
    \A i \in 1..Len(ctx.scopes) :
        OwnsSchema(ctx.scopes[i]) =>
            /\ ctx.scopes[i].record_schema >= PoolBase
            /\ ctx.scopes[i].record_schema + ctx.config.max_record_fields
                   <= PoolBase + SchemaPoolLen(ctx.config)

PopRestores ==
    Len(ctx'.scopes) < Len(ctx.scopes) =>
        ctx'.schema_pool = ctx.scopes[Len(ctx'.scopes) + 1].prev_schema_pool

\* C37: the schema pool cursor is its base plus max_record_fields times the
\* number of Record and Table frames on the scope stack and stays within
\* the pool; frames at different depths own disjoint slots, a row sharing
\* its table's being the only aliasing; and a pop restores the cursor to
\* its value before the push of the outermost frame popped.
C37_SchemaPool ==
    /\ [](PoolCursor /\ DisjointSlots /\ SlotsInPool)
    /\ [][PopRestores]_vars

\* A row of a table has the table's slots although its own frame moved the
\* cursor past a second set of slots.
C37_Witness ==
    /\ Len(ctx.scopes) >= 3
    /\ ctx.scopes[2].type = BSERIAL_SCOPE_TABLE
    /\ ctx.scopes[3].type = BSERIAL_SCOPE_RECORD
    /\ ctx.scopes[3].record_schema = ctx.scopes[2].record_schema
    /\ ctx.scopes[3].prev_schema_pool =
           PoolBase + ctx.config.max_record_fields
    /\ ctx.schema_pool >= PoolBase + 2 * ctx.config.max_record_fields
    /\ ctx.status = BSERIAL_OK


\* ---------------------------------------------------------------------
\* A writer that interns texts.  The index of the symbol table has 4 slots
\* for max_num_symbols of 1 or 2 and 8 slots for 3 or 4; in both, the two
\* texts of each pair below start their probe at the same slot and walk it
\* with the same step.
InternMem == << <<98>>, <<97, 98>>, <<97, 100>>, <<98, 100>>, << >>, <<98, 97>> >>
InternTexts == { InternMem[i] : i \in 1..Len(InternMem) }

InternInit ==
    /\ \E n \in 1..MaxSymbols :
           wconf = [Config(MaxDepth) EXCEPT !.max_num_symbols = n]
    /\ ctx = bserial_make_ctx(wconf, NoIn, bserial_mem_init_out(SinkCap))
    /\ phase = "write"
    /\ prog = << >>
    /\ stk = << >>
    /\ rproc = "none"
    /\ cut = 0
    /\ op = "make_ctx"
    /\ ret = BSERIAL_OK
    /\ wdefs = << >>

InternMade(text, o) ==
    /\ ctx' = o.c
    /\ op' = "symbol"
    /\ ret' = o.r
    /\ prog' = Append(prog, text)
    /\ UNCHANGED <<phase, stk, rproc, wconf, cut, wdefs>>

\* bserial_symbol(ctx, &text, &len) of a writer; prog keeps the texts the
\* caller has passed so far.
InternSymbol ==
    /\ Len(prog) < MaxCalls
    /\ \E text \in InternTexts :
           InternMade(text, bserial_symbol(ctx, NULL, Len(text), text))

InternNext == InternSymbol

InternSpec == InternInit /\ [][InternNext]_vars

\* The texts of a sequence in the order of their first occurrence.
RECURSIVE FirstSeen(_)
FirstSeen(texts) ==
    IF texts = << >> THEN << >>
    ELSE LET before == FirstSeen(SubSeq(texts, 1, Len(texts) - 1))
             text == texts[Len(texts)]
         IN  IF \E j \in 1..Len(before) : before[j] = text
             THEN before ELSE Append(before, text)

\* The texts interned before this call, and the text of this call.
InternEarlier == { prog[j] : j \in 1..Len(prog) }
InternText == prog'[Len(prog')]
InternId == (CHOOSE j \in 1..Len(FirstSeen(prog)) : FirstSeen(prog)[j] = InternText) - 1

\* The symbol table by id.
InternTable(c) ==
    [j \in 1..c.num_symbols |-> SymText(c, c.symtab[j].buf, c.symtab[j].len)]

\* The hashes of the caller's texts.
InternHash == [text \in InternTexts |-> bserial_hash(text)]

\* The slot a probe of `text` looks at first, and the k-th slot it looks at.
FirstProbe(c, text) ==
    bserial_lookup_index(InternHash[text], c.symtab_exp,
                         InternHash[text][1] % (2 ^ c.symtab_exp))

RECURSIVE ProbeSlot(_, _, _)
ProbeSlot(c, text, k) ==
    IF k = 1 THEN FirstProbe(c, text)
    ELSE bserial_lookup_index(InternHash[text], c.symtab_exp,
                              ProbeSlot(c, text, k - 1))

\* The probe of `text` comes to an empty slot or to its own symbol after
\* passing occupied slots only, at most one per symbol of the table.
ProbeEnds(c, text) ==
    \E k \in 1..(c.num_symbols + 1) :
        /\ \/ c.symtab_index[ProbeSlot(c, text, k)] = 0
           \/ symbol_hit(c, c.symtab_index[ProbeSlot(c, text, k)], text)
        /\ \A j \in 1..(k - 1) : c.symtab_index[ProbeSlot(c, text, j)] # 0

\* Every symbol has one slot of the index, and the index is at least twice
\* as large as the table may become.
IndexSound ==
    /\ DOMAIN ctx.symtab_index = 0..(2 ^ ctx.symtab_exp - 1)
    /\ 2 ^ ctx.symtab_exp >= 2 * ctx.config.max_num_symbols
    /\ ctx.num_symbols <= ctx.config.max_num_symbols
    /\ \A j \in 1..ctx.num_symbols :
           Cardinality({ i \in DOMAIN ctx.symtab_index :
                             ctx.symtab_index[i] = j }) = 1
    /\ \A i \in DOMAIN ctx.symtab_index :
           ctx.symtab_index[i] \in 0..ctx.num_symbols
    /\ \A text \in InternTexts : ProbeEnds(ctx, text)

\* The table holds the distinct texts passed so far, in the order of their
\* first occurrence, until a text is refused.
TableIsFirstSeen ==
    ctx.status = BSERIAL_OK => InternTable(ctx) = FirstSeen(prog)

InternDedup ==
    (ctx.status = BSERIAL_OK /\ op' = "symbol") =>
        IF InternText \in InternEarlier
        THEN /\ ret' = BSERIAL_OK
             /\ Emitted = <<BSERIAL_SYM_REF, InternId>>
             /\ SymbolState(ctx') = SymbolState(ctx)
        ELSE IF symtab_full(ctx)
        THEN /\ ret' = BSERIAL_MALFORMED
             /\ Emitted = << >>
             /\ SymbolState(ctx') = SymbolState(ctx)
        ELSE /\ ret' = BSERIAL_OK
             /\ Emitted = <<BSERIAL_SYM_DEF, Len(InternText)>> \o InternText
             /\ ctx'.num_symbols = ctx.num_symbols + 1
             /\ InternTable(ctx') = Append(InternTable(ctx), InternText)

\* C38: a writer that interns a text emits a reference exactly when a text
\* of the same length and bytes was interned before in this context, and
\* otherwise a definition with the next id (or nothing, when the table is
\* full); texts that differ have different definitions and ids although
\* their probes start at the same slot; and every probe ends at a hit or at
\* an empty slot, the index having at least twice max_num_symbols slots.
C38_InternDedup ==
    /\ [](IndexSound /\ TableIsFirstSeen)
    /\ [][InternDedup]_vars

\* Two texts whose probes share start and step were defined one after the
\* other and then referred to by different ids.
C38_Witness ==
    /\ prog = << <<97, 100>>, <<98, 100>>, <<98, 100>>, <<97, 100>> >>
    /\ FirstProbe(ctx, prog[1]) = FirstProbe(ctx, prog[2])
    /\ ctx.symtab_exp = 3
    /\ ctx.status = BSERIAL_OK
    /\ ctx.out.mem = <<BSERIAL_SYM_DEF, 2, 97, 100, BSERIAL_SYM_DEF, 2, 98, 100,
                       BSERIAL_SYM_REF, 1, BSERIAL_SYM_REF, 0>>

=============================================================================
